---- MODULE Spec2Model ----
(***************************************************************************)
(* State-machine model of the CPS graph of AnyDSL2/Thorin: lambdas with    *)
(* their operand and use lists, the Braun-style SSA constructor            *)
(* (set_value / get_value / seal / fix / try_remove_trivial_param) and the *)
(* Scope analysis (membership and reverse-postorder numbering).            *)
(*                                                                         *)
(* A definition is a triple      <<kind, name, index>>.  C++ indices are *)
(* 0-based and are kept 0-based wherever the model stores an index; the    *)
(* operand sequence of a lambda is a TLA+ sequence, so operand i lives at  *)
(* position i+1.                                                           *)
(***************************************************************************)
EXTENDS Integers, Sequences, FiniteSets, TLC

\* ------------------------------------------------------------------ bounds
\* number of client operations in one behaviour
MaxSteps == 3
\* number of client operations in one behaviour of the SSA construction
MaxSsaSteps == 5
\* number of client operations in one behaviour of the trivial-phi law
MaxPhiSteps == 6
\* number of client operations in one behaviour of the binding table
MaxBindSteps == 5
\* number of scope constructions in one behaviour
MaxScopes == 1
\* number of graph operations in one behaviour with scopes
MaxScopeSteps == 3
\* number of graph operations in one behaviour with a DomTree
MaxDomSteps == 4
\* number of graph operations before a scope is mangled
MaxMangleSteps == 4
\* number of graph operations before lower2cff runs, and rounds of its loop
MaxCffSteps == 5
MaxRounds == 8
\* number of graph operations before the PassMgr runs, and nominals in its queue
MaxPassSteps == 2
MaxQueue == 3

\* ------------------------------------------------------------- universe
\* lambdas present when the run starts, in gid order
BaseLambdas == <<"A", "B", "C">>
\* lambdas World::lambda can still hand out (used by Lambda::call), in gid order
PoolLambdas == <<"N">>
\* lambdas World::lambda hands out to the Mangler (new entry, stubs), in gid order
MangleLambdas == <<"O", "P", "Q", "R">>
LambdaOrder == BaseLambdas \o PoolLambdas \o MangleLambdas
LambdaIds == {LambdaOrder[k] : k \in 1..Len(LambdaOrder)}
\* handles of the per-lambda value table
Handles == {0, 1}
\* the handle the SSA construction is followed on
SsaHandles == {0}
\* first-order types
Types == {"int"}

Null == <<"null", "", 0>>
Lam(n) == <<"lam", n, 0>>
Par(n, i) == <<"param", n, i>>
Lit(ty, v) == <<"lit", ty, v>>
Bot(ty) == <<"bot", ty, 0>>
Sel(k) == <<"select", "", k>>

IsLam(d) == d[1] = "lam"
IsPar(d) == d[1] = "param"
IsSel(d) == d[1] = "select"
\* a PrimLit carrying a boolean
IsBoolLit(d) == d[1] = "lit" /\ d[2] = "bool"

\* values a client passes to set_value / as jump arguments
Literals == {Lit("int", 7), Lit("int", 8)}

VARIABLES
    ops,      \* Def::ops_ of every lambda: [callee, arg0, arg1, ...]
    uses,     \* Def::uses_ of every def, as triples <<used, user, index>>
    params,   \* Lambda::params_: the type of every parameter, in index order
    pi,       \* Lambda::pi(): the element types of the lambda's function type
    sealed,   \* Lambda::is_sealed_
    visited,  \* Lambda::is_visited_
    parent,   \* Lambda::parent_ (Null for a null pointer)
    tracked,  \* Lambda::tracked_values_: handle -> tracked def (Null: no tracker)
    todos,    \* Lambda::todos_
    sels,     \* the World's interned Select nodes: Sel(k) has operands sels[k]
    created,  \* the lambdas World::lambda has handed out
    ssa,      \* history: parameters appended by get_value
    gone,     \* history: <<p, v>> when try_remove_trivial_param replaced p by v
    given,    \* history: the def of the client's last set_value(handle, def)
    fault,    \* "none", or the fault that aborted the program
    last,     \* history: the last client operation, its result and its log
    steps,    \* number of client operations so far
    sid,      \* Lambda::sid_ (-1 for size_t(-1))
    scope,    \* Lambda::scope_: TRUE when it points to the live Scope
    rpo,      \* Scope::rpo_
    entries,  \* the entries the live Scope was built from
    scopes,   \* number of Scopes constructed so far
    idom,     \* DomNode::idom_ of the forward DomTree of the live Scope ("": no node)
    backwards_rpo,  \* Scope::backwards_rpo_ ("": a null entry; <<>>: not allocated)
    backwards_sid,  \* Lambda::backwards_sid_ (-1 for size_t(-1))
    num_exits,      \* Scope::num_exits_ (-1 until backwards_rpo() sets it)
    mangled,  \* the last Mangler run: its inputs, its map (Def::cptr) and its log
    top,      \* lower2cff's LambdaSet top when it returned
    lowering, \* what lower2cff did: its sweeps, its drops, the calls it rewrote
    queue     \* PassMgr::State::queue of the current state: how often each nominal is in it

graphVars == <<ops, uses, params, pi, sealed, visited, parent, tracked, todos, sels, created, ssa, gone>>
scopeVars == <<sid, scope, rpo, entries, scopes>>
toolVars == <<idom, backwards_rpo, backwards_sid, num_exits, mangled, top, lowering, queue>>
vars == <<graphVars, given, fault, last, steps, scopeVars, toolVars>>

\* ------------------------------------------------------ the graph as a value
\* The operations below are functions from graph to graph; an action applies
\* one to the current graph and commits the result.
Graph == [ops |-> ops, uses |-> uses, params |-> params, pi |-> pi,
          sealed |-> sealed, visited |-> visited, parent |-> parent,
          tracked |-> tracked, todos |-> todos, sels |-> sels,
          created |-> created, ssa |-> ssa, gone |-> gone, fault |-> "none",
          fixes |-> <<>>, removes |-> <<>>, diverged |-> {}]

Ok(g) == g.fault = "none"
Fail(g, why) == IF Ok(g) THEN [g EXCEPT !.fault = why] ELSE g

\* position of a lambda in gid order
RECURSIVE IndexOf(_, _, _)
IndexOf(seq, x, k) == IF k > Len(seq) THEN 0
                      ELSE IF seq[k] = x THEN k ELSE IndexOf(seq, x, k + 1)
Gid(d) == IF IsLam(d) THEN IndexOf(LambdaOrder, d[2], 1) ELSE Len(LambdaOrder) + d[3]

\* operands of any def: a lambda's ops_, a Select's three operands, else none
OpsOf(g, d) == IF IsLam(d) THEN g.ops[d[2]]
               ELSE IF IsSel(d) THEN g.sels[d[3]] ELSE <<>>

NumArgs(g, L) == Len(g.ops[L]) - 1
Arg(g, L, i) == g.ops[L][i + 2]

\* ------------------------------------------------------- use-def index
\* Def::set_op: the assignment ops[i] <- o drops the use entry of the operand
\* it overwrites and enters (user, i) into o's uses.
SetOp(g, L, i, o) ==
    LET old == g.ops[L][i + 1]
        drop == IF old = Null THEN {} ELSE {<<old, Lam(L), i>>}
        come == IF o = Null THEN {} ELSE {<<o, Lam(L), i>>}
    IN [g EXCEPT !.ops[L][i + 1] = o, !.uses = (@ \ drop) \cup come]

\* Def::unset_op: removes the use entry and nulls the slot.
UnsetOp(g, L, i) == SetOp(g, L, i, Null)

\* Def::unset_ops: unset_op on every slot.
UnsetOps(g, L) ==
    [g EXCEPT !.ops[L] = [k \in 1..Len(g.ops[L]) |-> Null],
              !.uses = {u \in @ : u[2] # Lam(L)}]

\* DefNode::resize: ops_.resize(n, nullptr); the use lists are not touched.
Resize(g, L, n) ==
    [g EXCEPT !.ops[L] = [k \in 1..n |-> IF k <= Len(g.ops[L]) THEN g.ops[L][k] ELSE Null]]

\* UseLT: uses are ordered by (gid of the user, operand index).
UseLT(u, v) == Gid(u[1]) < Gid(v[1]) \/ (Gid(u[1]) = Gid(v[1]) /\ u[2] < v[2])

RECURSIVE SortUses(_)
SortUses(S) ==
    IF S = {} THEN <<>>
    ELSE LET m == CHOOSE u \in S : \A v \in S \ {u} : UseLT(u, v)
         IN <<m>> \o SortUses(S \ {m})

\* Def::uses(): the (user, index) pairs of a def in iteration order
UsesOf(g, d) == SortUses({<<u[2], u[3]>> : u \in {t \in g.uses : t[1] = d}})

\* the worklist step shared by Lambda::succs and Lambda::preds: push every
\* candidate that is not yet in `done`
RECURSIVE PushNew(_, _, _)
PushNew(cands, q, done) ==
    IF cands = <<>> THEN [q |-> q, done |-> done]
    ELSE IF Head(cands) \in done THEN PushNew(Tail(cands), q, done)
    ELSE PushNew(Tail(cands), Append(q, Head(cands)), done \cup {Head(cands)})

UserSeq(g, d) == LET us == UsesOf(g, d) IN [k \in 1..Len(us) |-> us[k][1]]

RECURSIVE PredsLoop(_, _, _, _)
PredsLoop(g, q, done, result) ==
    IF q = <<>> THEN result
    ELSE IF IsLam(Head(q)) THEN PredsLoop(g, Tail(q), done, Append(result, Head(q)[2]))
    ELSE LET n == PushNew(UserSeq(g, Head(q)), Tail(q), done)
         IN PredsLoop(g, n.q, n.done, result)

\* Lambda::preds: the lambdas that use this lambda, directly or through primops
Preds(g, L) ==
    LET n == PushNew(UserSeq(g, Lam(L)), <<>>, {})
    IN PredsLoop(g, n.q, n.done, <<>>)

RECURSIVE SuccsLoop(_, _, _, _)
SuccsLoop(g, q, done, result) ==
    IF q = <<>> THEN result
    ELSE IF IsLam(Head(q)) THEN SuccsLoop(g, Tail(q), done, Append(result, Head(q)[2]))
    ELSE LET n == PushNew(OpsOf(g, Head(q)), Tail(q), done)
         IN SuccsLoop(g, n.q, n.done, result)

\* Lambda::succs: the lambdas this lambda uses, directly or through primops
Succs(g, L) ==
    LET n == PushNew(g.ops[L], <<>>, {})
    IN SuccsLoop(g, n.q, n.done, <<>>)

\* Lambda::succs dereferences every operand: a null operand is a crash
NullOp(g, L) == \E k \in 1..Len(g.ops[L]) : g.ops[L][k] = Null

RECURSIVE DirectPredsLoop(_, _, _)
DirectPredsLoop(g, us, result) ==
    IF us = <<>> THEN result
    ELSE LET u == Head(us)
         IN IF IsSel(u[1])
            THEN DirectPredsLoop(g, Tail(us), result \o
                     [k \in 1..Len(UsesOf(g, u[1])) |-> UsesOf(g, u[1])[k][1][2]])
            ELSE IF u[2] = 0 /\ IsLam(u[1])
                 THEN DirectPredsLoop(g, Tail(us), Append(result, u[1][2]))
                 ELSE DirectPredsLoop(g, Tail(us), result)

\* find_preds<true>: users at operand 0, looking through a Select
DirectPreds(g, L) == DirectPredsLoop(g, UsesOf(g, Lam(L)), <<>>)

\* World::select with folding: a boolean literal condition yields the taken
\* side; otherwise the interned node (its operands' uses are entered when the
\* node is created).
WorldSelect(g, c, t, f) ==
    IF IsBoolLit(c) THEN [g |-> g, val |-> IF c[3] = 1 THEN t ELSE f]
    ELSE IF \E k \in 1..Len(g.sels) : g.sels[k] = <<c, t, f>>
    THEN [g |-> g, val |-> Sel(CHOOSE k \in 1..Len(g.sels) : g.sels[k] = <<c, t, f>>)]
    ELSE LET k == Len(g.sels) + 1
         IN [g |-> [g EXCEPT !.sels = Append(@, <<c, t, f>>),
                             !.uses = @ \cup {<<c, Sel(k), 0>>, <<t, Sel(k), 1>>, <<f, Sel(k), 2>>}],
             val |-> Sel(k)]

\* ------------------------------------------------------- lambda mutators
Ret(g, v) == [g |-> g, val |-> v]
\* the value (const Def*)-1 that get_value uses for "the preds differ"
Minus1 == <<"minus1", "", 0>>

\* Lambda::jump
Jump(g, L, to, args) ==
    LET g1 == SetOp(Resize(UnsetOps(g, L), L, Len(args) + 1), L, 0, to)
        F[k \in 0..Len(args)] == IF k = 0 THEN g1 ELSE SetOp(F[k - 1], L, k, args[k])
    IN F[Len(args)]

\* Lambda::branch
Branch(g, L, cond, tto, fto) ==
    LET r == WorldSelect(g, cond, tto, fto) IN Jump(r.g, L, r.val, <<>>)

\* World::lambda(pi, name): a fresh lambda with one parameter per element of pi
WorldLambda(g, n, elems) ==
    [g EXCEPT !.created = @ \cup {n}, !.pi[n] = elems, !.params[n] = elems]

\* Lambda::call: the continuation `next` takes the result; it is passed last
Call(g, L, to, args, ret_type, next) ==
    Jump(WorldLambda(g, next, <<ret_type>>), L, to, Append(args, Lam(next)))

\* Lambda::update_op
UpdateOp(g, L, i, def) == SetOp(UnsetOp(g, L, i), L, i, def)

\* Lambda::append_arg: pushes onto ops_ directly
AppendArg(g, L, arg) == [g EXCEPT !.ops[L] = Append(@, arg)]

\* append_param that forgets to rebuild the function type
AppendParamKeepsType(g, L, type) ==
    LET size == Len(g.pi[L])
    IN [g |-> [g EXCEPT !.params[L] = Append(@, type)], val |-> <<"param", L, size>>]

\* Lambda::append_param: grows the function type and params_ by one
AppendParam(g, L, type) ==
    LET size == Len(g.pi[L])
    IN Ret([g EXCEPT !.pi[L] = Append(@, type), !.params[L] = Append(@, type)],
           Par(L, size))

\* append_param as get_value calls it; the parameter is noted as SSA-made
SsaParam(g, L, type) ==
    LET a == AppendParam(g, L, type) IN Ret([a.g EXCEPT !.ssa = @ \cup {a.val}], a.val)

\* Lambda::find_tracker
FindTracker(g, L, handle) == g.tracked[L][handle]

\* set_value that shrinks tracked_values_ to handle + 1 entries
SetValueTruncates(g, L, handle, def) ==
    [g |-> [g EXCEPT !.tracked[L] = [h \in Handles |->
                        IF h = handle THEN def ELSE IF h > handle THEN Null ELSE @[h]]],
     val |-> def]

\* Lambda::set_value
SetValue(g, L, handle, def) == Ret([g EXCEPT !.tracked[L][handle] = def], def)

\* Def::replace(with): every tracker on the def and every lambda operand that
\* uses it is moved to `with`; a Select over it is rebuilt through the World
\* and replaced in turn.
RECURSIVE Replace(_, _, _)
RECURSIVE ReplaceInSelects(_, _, _, _)
ReplaceInSelects(g, ks, p, w) ==
    IF ks = <<>> THEN g
    ELSE LET o == g.sels[Head(ks)]
             n == [k \in 1..3 |-> IF o[k] = p THEN w ELSE o[k]]
             r == WorldSelect(g, n[1], n[2], n[3])
         IN ReplaceInSelects(Replace(r.g, Sel(Head(ks)), r.val), Tail(ks), p, w)

Replace(g, p, w) ==
    LET mine == {u \in g.uses : u[1] = p /\ IsLam(u[2])}
        g1 == [g EXCEPT
                 !.tracked = [L \in LambdaIds |-> [h \in Handles |->
                                 IF g.tracked[L][h] = p THEN w ELSE g.tracked[L][h]]],
                 !.ops = [L \in LambdaIds |-> [k \in 1..Len(g.ops[L]) |->
                                 IF <<p, Lam(L), k - 1>> \in mine THEN w ELSE g.ops[L][k]]],
                 !.uses = (@ \ mine) \cup {<<w, u[2], u[3]>> : u \in mine}]
        ks == SortUses({<<u[2], u[3]>> : u \in {t \in g.uses : t[1] = p /\ IsSel(t[2])}})
    IN ReplaceInSelects(g1, [k \in 1..Len(ks) |-> ks[k][1][3]], p, w)

\* ------------------------------------------------------- SSA construction
\* depth at which the mutual recursion of get_value / fix has certainly
\* entered a cycle (a parent cycle or a cycle of single-predecessor lambdas):
\* the C++ recursion then never returns and the program dies
MaxDepth == 4 * (Len(BaseLambdas) + Len(PoolLambdas))

Todo(handle, index, type) == [handle |-> handle, index |-> index, type |-> type]

\* Param::peek: the direct predecessors of the parameter's lambda
Peek(g, L) == DirectPreds(g, L)

\* return_bottom that returns the bottom without binding the handle to it
ReturnBottomUnbound(g, L, handle, type) == [g |-> g, val |-> Bot(type)]

\* the return_bottom label of Lambda::get_value
ReturnBottom(g, L, handle, type) == SetValue(g, L, handle, Bot(type))

\* the scan of try_remove_trivial_param over the predecessors' arguments:
\* "keep" when two different non-self values are met, else the value found
\* the scan without the test "def == param": the parameter's own occurrence
\* on a back edge counts as a value
RECURSIVE ScanPredsCountsSelf(_, _, _, _, _)
ScanPredsCountsSelf(g, preds, index, param, same) ==
    IF preds = <<>> THEN [kind |-> "same", val |-> same]
    ELSE IF index >= NumArgs(g, Head(preds)) THEN [kind |-> "range", val |-> Null]
    ELSE LET def == Arg(g, Head(preds), index)
         IN IF same = def THEN ScanPredsCountsSelf(g, Tail(preds), index, param, same)
            ELSE IF same # Null THEN [kind |-> "keep", val |-> param]
            ELSE ScanPredsCountsSelf(g, Tail(preds), index, param, def)

RECURSIVE ScanPreds(_, _, _, _, _)
ScanPreds(g, preds, index, param, same) ==
    IF preds = <<>> THEN [kind |-> "same", val |-> same]
    ELSE IF index >= NumArgs(g, Head(preds)) THEN [kind |-> "range", val |-> Null]
    ELSE LET def == Arg(g, Head(preds), index)
         IN IF def = param \/ same = def THEN ScanPreds(g, Tail(preds), index, param, same)
            ELSE IF same # Null THEN [kind |-> "keep", val |-> param]
            ELSE ScanPreds(g, Tail(preds), index, param, def)

\* the arguments the predecessors pass at a slot (for the log)
SlotValues(g, preds, index) ==
    {Arg(g, preds[k], index) : k \in {j \in 1..Len(preds) : index < NumArgs(g, preds[j])}}

\* first argument position of `succ` that holds `def`, or -1
FirstArg(g, succ, def) ==
    IF \E i \in 0..(NumArgs(g, succ) - 1) : Arg(g, succ, i) = def
    THEN CHOOSE i \in 0..(NumArgs(g, succ) - 1) :
            Arg(g, succ, i) = def /\ \A j \in 0..(i - 1) : Arg(g, succ, j) # def
    ELSE -1

\* the loop "for_all (peek, param->peek()) peek.from()->update_arg(index, bottom)"
\* the loop left out: the predecessors keep what they passed
BottomOutSkipped(g, froms, index, type) == g

RECURSIVE BottomOut(_, _, _, _)
BottomOut(g, froms, index, type) ==
    IF froms = <<>> \/ ~Ok(g) THEN g
    ELSE IF index >= NumArgs(g, Head(froms)) THEN Fail(g, "assert: arg index out of range")
    ELSE BottomOut(UpdateOp(g, Head(froms), index + 1, Bot(type)), Tail(froms), index, type)

\* ---- the call stack
\* get_value, fix and try_remove_trivial_param call one another.  A run of
\* them is a machine m = [g, stack, ret]: the graph, the C++ call stack (the
\* running call last) and the value the last finished call returned.  Each
\* operator below executes the running call up to its next call or return.
Frame(f, L, handle, type, index) ==
    [f |-> f, pc |-> "start", lam |-> L, handle |-> handle, type |-> type,
     index |-> index, rest |-> <<>>, same |-> Null, users |-> <<>>, succs |-> <<>>]

Top(m) == m.stack[Len(m.stack)]
Pop(m) == SubSeq(m.stack, 1, Len(m.stack) - 1)
\* return v from the running call
Return(m, g, v) == [g |-> g, stack |-> Pop(m), ret |-> v]
\* stay in the running call, now in frame fr
Goto(m, g, fr) == [g |-> g, stack |-> Append(Pop(m), fr), ret |-> m.ret]
\* call `callee`; the running call resumes in frame fr
Enter(m, g, fr, callee) == [g |-> g, stack |-> Append(Append(Pop(m), fr), callee), ret |-> m.ret]
\* "return callee(...)": the callee's result is the running call's result
TailCall(m, g, callee) == [g |-> g, stack |-> Append(Pop(m), callee), ret |-> m.ret]
Abort(m, why) == [m EXCEPT !.g = Fail(m.g, why)]

\* Lambda::try_remove_trivial_param(param(index)) on lambda L
TryRemoveTrivialParam(m) ==
    LET fr == Top(m)
        g == m.g
        L == fr.lam
        index == fr.index
        param == Par(L, index)
    IN
    IF fr.pc = "start" THEN
        IF index >= Len(g.params[L]) THEN Abort(m, "assert: param index out of range")
        ELSE IF ~g.sealed[L] THEN Abort(m, "assert: must be sealed")
        ELSE
        LET preds == Preds(g, L)
            scan == ScanPreds(g, preds, index, param, Null)
            entry(ret) == [lam |-> L, index |-> index, depth |-> Len(m.stack),
                           vals |-> SlotValues(g, preds, index), ret |-> ret]
        IN IF scan.kind = "range" THEN Abort(m, "assert: arg index out of range")
           ELSE IF scan.kind = "keep"
           THEN Return(m, [g EXCEPT !.removes = Append(@, entry(param))], param)
           ELSE IF scan.val = Null THEN Abort(m, "assert: same != 0")
           ELSE
           LET same == scan.val
               us == UsesOf(g, param)
               g1 == Replace([g EXCEPT !.removes = Append(@, entry(same)),
                                       !.gone = @ \cup {<<param, same>>}], param, same)
               g2 == BottomOut(g1, Peek(g1, L), index, g1.params[L][index + 1])
           IN Goto(m, g2, [fr EXCEPT !.pc = "users", !.same = same,
                                     !.users = [k \in 1..Len(us) |-> us[k][1]]])
    ELSE \* pc = "users": the loops over the former users and their successors
        IF fr.succs # <<>> THEN
            LET succ == Head(fr.succs)
                user == Head(fr.users)
                i == FirstArg(g, succ, user)
                next == IF Len(fr.succs) = 1
                        THEN [fr EXCEPT !.succs = <<>>, !.users = Tail(@)]
                        ELSE [fr EXCEPT !.succs = Tail(@)]
            IN IF i = -1 THEN Goto(m, g, next)
               ELSE IF i >= Len(g.params[succ]) THEN Abort(m, "assert: param index out of range")
               ELSE IF Par(succ, i) = param THEN Goto(m, g, next)
               ELSE Enter(m, g, next, Frame("try_remove_trivial_param", succ, 0, "", i))
        ELSE IF fr.users = <<>> THEN Return(m, g, fr.same)
        ELSE IF ~IsLam(Head(fr.users)) THEN Goto(m, g, [fr EXCEPT !.users = Tail(@)])
        ELSE IF NullOp(g, Head(fr.users)[2]) THEN Abort(m, "null operand")
        ELSE LET succs == Succs(g, Head(fr.users)[2])
             IN IF succs = <<>> THEN Goto(m, g, [fr EXCEPT !.users = Tail(@)])
                ELSE Goto(m, g, [fr EXCEPT !.succs = succs])

\* Lambda::fix
Fix(m) ==
    LET fr == Top(m)
        g == m.g
        L == fr.lam
        index == fr.index
    IN
    IF fr.pc = "start" THEN
        IF index >= Len(g.params[L]) THEN Abort(m, "assert: param index out of range")
        ELSE IF ~g.sealed[L] THEN Abort(m, "assert: must be sealed")
        ELSE Goto(m, [g EXCEPT !.fixes = Append(@, [lam |-> L, depth |-> Len(m.stack),
                                                    todo |-> Todo(fr.handle, index, fr.type)])],
                  [fr EXCEPT !.pc = "loop", !.rest = Preds(g, L)])
    ELSE IF fr.pc = "loop" THEN
        IF fr.rest = <<>>
        THEN TailCall(m, g, Frame("try_remove_trivial_param", L, 0, "", index))
        ELSE
        LET pred == Head(fr.rest)
        IN IF Len(g.ops[pred]) = 0 THEN Abort(m, "assert: pred empty")
           ELSE IF NullOp(g, pred) THEN Abort(m, "null operand")
           ELSE IF Len(Succs(g, pred)) # 1 THEN Abort(m, "assert: critical edge")
           ELSE
           LET g1 == IF index >= NumArgs(g, pred) THEN Resize(g, pred, index + 2) ELSE g
           IN IF Arg(g1, pred, index) # Null THEN Abort(m, "assert: already set")
              ELSE Enter(m, g1, [fr EXCEPT !.pc = "set"],
                         Frame("get_value", pred, fr.handle, fr.type, 0))
    ELSE \* pc = "set": pred->set_op(index + 1, <the value get_value returned>)
        IF index + 2 > Len(g.ops[Head(fr.rest)]) THEN Abort(m, "assert: op index out of range")
        ELSE Goto(m, SetOp(g, Head(fr.rest), index + 1, m.ret),
                  [fr EXCEPT !.pc = "loop", !.rest = Tail(@)])

\* the Todo recorded with the parameter count after the append as its index
PushTodoOffByOne(g, L, handle, param, type) ==
    [g EXCEPT !.todos[L] = Append(@, Todo(handle, Len(g.params[L]), type))]

\* todos_.push_back(Todo(handle, param->index(), type, name))
PushTodo(g, L, handle, param, type) ==
    [g EXCEPT !.todos[L] = Append(@, Todo(handle, param[3], type))]

\* Lambda::get_value
GetValue(m) ==
    LET fr == Top(m)
        g == m.g
        L == fr.lam
        handle == fr.handle
        type == fr.type
        bottom == ReturnBottom(g, L, handle, type)
    IN
    IF fr.pc = "start" THEN
        IF FindTracker(g, L, handle) # Null THEN Return(m, g, FindTracker(g, L, handle))
        ELSE IF g.parent[L] # Lam(L) THEN
            IF g.parent[L] # Null
            THEN TailCall(m, g, Frame("get_value", g.parent[L][2], handle, type, 0))
            ELSE Return(m, bottom.g, bottom.val)
        ELSE IF ~g.sealed[L] THEN
            LET a == SsaParam(g, L, type)
                g1 == PushTodo(a.g, L, handle, a.val, type)
                r == SetValue(g1, L, handle, a.val)
            IN Return(m, r.g, r.val)
        ELSE
        LET preds == Preds(g, L)
        IN IF Len(preds) = 0 THEN Return(m, bottom.g, bottom.val)
           ELSE IF Len(preds) = 1
           THEN Enter(m, g, [fr EXCEPT !.pc = "one"], Frame("get_value", preds[1], handle, type, 0))
           ELSE IF g.visited[L] THEN
               LET a == SsaParam(g, L, type)
                   r == SetValue(a.g, L, handle, a.val)
               IN Return(m, r.g, r.val)
           ELSE Enter(m, [g EXCEPT !.visited[L] = TRUE],
                      [fr EXCEPT !.pc = "asked", !.rest = Tail(preds)],
                      Frame("get_value", preds[1], handle, type, 0))
    ELSE IF fr.pc = "one" THEN
        LET r == SetValue(g, L, handle, m.ret) IN Return(m, r.g, r.val)
    ELSE IF fr.pc = "asked" THEN \* def = pred->get_value(...) has returned
        LET def == m.ret
            differ == fr.same # Null /\ fr.same # def
            same == IF differ THEN Minus1 ELSE def
        IN IF ~differ /\ fr.rest # <<>>
           THEN Enter(m, g, [fr EXCEPT !.same = same, !.rest = Tail(@)],
                      Frame("get_value", Head(fr.rest), handle, type, 0))
           ELSE
           LET g1 == [g EXCEPT !.visited[L] = FALSE,
                               !.diverged = IF differ THEN @ \cup {<<L, handle, Len(m.stack)>>} ELSE @]
           IN IF same # Minus1 THEN Return(m, g1, same)
              ELSE
              LET tracker == FindTracker(g1, L, handle)
              IN IF tracker # Null /\ ~IsPar(tracker)
                 THEN Abort(m, "assert: as<Param>")
                 ELSE LET a == IF tracker # Null THEN Ret(g1, tracker)
                                                 ELSE SsaParam(g1, L, type)
                      IN Enter(m, a.g, [fr EXCEPT !.pc = "fixed"],
                               Frame("fix", a.val[2], handle, type, a.val[3]))
    ELSE \* pc = "fixed": set_value(handle, <what fix returned>)
        LET r == SetValue(g, L, handle, m.ret) IN Return(m, r.g, r.val)

\* Lambda::seal
Seal(m) ==
    LET fr == Top(m)
        g == m.g
        L == fr.lam
    IN
    IF fr.pc = "start" THEN
        IF g.sealed[L] THEN Abort(m, "assert: already sealed")
        ELSE Goto(m, [g EXCEPT !.sealed[L] = TRUE], [fr EXCEPT !.pc = "loop", !.index = 1])
    ELSE \* pc = "loop": for_all (todo, todos_) fix(todo); then todos_.clear()
        IF fr.index <= Len(g.todos[L])
        THEN LET todo == g.todos[L][fr.index]
             IN Enter(m, g, [fr EXCEPT !.index = @ + 1],
                      Frame("fix", L, todo.handle, todo.type, todo.index))
        ELSE Return(m, [g EXCEPT !.todos[L] = <<>>], Null)

\* one step of the running call
Step(m) ==
    LET f == Top(m).f
    IN IF Len(m.stack) > MaxDepth THEN Abort(m, "stack overflow")
       ELSE IF f = "get_value" THEN GetValue(m)
       ELSE IF f = "fix" THEN Fix(m)
       ELSE IF f = "try_remove_trivial_param" THEN TryRemoveTrivialParam(m)
       ELSE Seal(m)

\* the client's call runs until it returns or the program aborts
RECURSIVE Run(_)
Run(m) == IF m.stack = <<>> \/ ~Ok(m.g) THEN m ELSE Run(Step(m))

Start(g, fr) == Run([g |-> g, stack |-> <<fr>>, ret |-> Null])

\* ------------------------------------------------------------------ Scope
\* Scope::insert: the lambda is marked for the pass and joins rpo_
Insert(a, L) ==
    IF Lam(L) \in a.marked THEN a
    ELSE [a EXCEPT !.marked = @ \cup {Lam(L)}, !.rpo = Append(@, L)]

\* Scope::jump_to_param_users: find_user for every parameter, in index order
ParamTasks(g, L) == [k \in 1..Len(g.params[L]) |-> <<"find_user", Par(L, k - 1)>>]

\* one call of Scope::find_user or Scope::up; `todo` holds the calls still
\* to be made, in the order the recursion makes them
WalkStep(g, a) ==
    LET t == Head(a.todo)
        rest == Tail(a.todo)
        def == t[2]
    IN IF t[1] = "find_user" THEN
           IF IsLam(def) THEN [a EXCEPT !.todo = <<<<"up", def>>>> \o rest]
           ELSE IF def \in a.marked THEN [a EXCEPT !.todo = rest]
           ELSE LET users == UserSeq(g, def)
                IN [a EXCEPT !.marked = @ \cup {def},
                             !.todo = [k \in 1..Len(users) |-> <<"find_user", users[k]>>] \o rest]
       ELSE \* Scope::up
           IF def \in a.marked \/ a.limit = def THEN [a EXCEPT !.todo = rest]
           ELSE LET preds == Preds(g, def[2])
                    b == Insert(a, def[2])
                IN [b EXCEPT !.todo = ParamTasks(g, def[2])
                                      \o [k \in 1..Len(preds) |-> <<"up", Lam(preds[k])>>]
                                      \o rest]

RECURSIVE Walk(_, _)
Walk(g, a) == IF a.todo = <<>> THEN a ELSE Walk(g, WalkStep(g, a))

\* Scope::analyze: every entry is inserted and the users of its parameters
\* are followed with no limit
RECURSIVE Analyze(_, _, _)
Analyze(g, a, es) ==
    IF es = <<>> THEN a
    ELSE Analyze(g, Walk(g, [Insert(a, Head(es)) EXCEPT !.todo = ParamTasks(g, Head(es))]),
                 Tail(es))

\* Scope::number, forwards: a frame is a call of number(cur) with the
\* successors it still has to look at; a root frame is an entry, whose
\* successors Scope::process walks itself
NumberStep(g, n) ==
    LET fr == Head(n.stack)
    IN IF fr.rest = <<>>
       THEN IF fr.root THEN [n EXCEPT !.stack = Tail(@)]
            ELSE [n EXCEPT !.stack = Tail(@), !.sid[fr.cur] = n.num, !.num = @ + 1]
       ELSE LET succ == Head(fr.rest)
                popped == [n EXCEPT !.stack[1].rest = Tail(@)]
            IN IF succ \in n.members /\ succ \notin n.visited
               THEN [popped EXCEPT !.visited = @ \cup {succ},
                                   !.stack = <<[cur |-> succ, rest |-> Succs(g, succ),
                                                root |-> FALSE]>> \o @]
               ELSE popped

RECURSIVE Number(_, _)
Number(g, n) == IF n.stack = <<>> THEN n ELSE Number(g, NumberStep(g, n))

\* the lambdas of rpo_ in the order std::sort leaves them: by sid_, the
\* unreachable ones (sid_ = size_t(-1)) last
RECURSIVE SortBySid(_, _)
SortBySid(S, sidOf) ==
    IF S = {} THEN <<>>
    ELSE LET key(L) == IF sidOf[L] = -1 THEN Len(LambdaOrder) + Gid(Lam(L)) ELSE sidOf[L]
             m == CHOOSE L \in S : \A M \in S \ {L} : key(L) < key(M)
         IN <<m>> \o SortBySid(S \ {m}, sidOf)

\* the entries numbered front to back
EntryNumberForwards(es, k, num) == num + k - 1

\* "for (size_t i = entries.size(); i-- != 0;) entries[i]->sid_ = num++":
\* the postorder number of the k-th entry, the last entry taking `num`
EntryNumber(es, k, num) == num + Len(es) - k

\* Scope::process
Process(g, members, sidOf, es) ==
    LET n0 == [members |-> {members[k] : k \in 1..Len(members)},
               visited |-> {es[k] : k \in 1..Len(es)},
               sid |-> sidOf, num |-> 0,
               stack |-> [k \in 1..Len(es) |->
                            [cur |-> es[k], rest |-> Succs(g, es[k]), root |-> TRUE]]]
        n1 == Number(g, n0)
        \* for (i = entries.size(); i-- != 0;) entries[i]->sid_ = num++
        post == [L \in LambdaIds |->
                   IF \E k \in 1..Len(es) : es[k] = L
                   THEN EntryNumber(es, CHOOSE k \in 1..Len(es) : es[k] = L, n1.num)
                   ELSE n1.sid[L]]
        num == n1.num + Len(es)
        final == [L \in LambdaIds |->
                    IF L \notin n0.members THEN sidOf[L]
                    ELSE IF L \in n1.visited THEN num - 1 - post[L] ELSE -1]
        sorted == SortBySid(n0.members, final)
    IN [fault |-> IF num > Len(members) THEN "assert: num <= size()"
                  ELSE IF num < 1 THEN "assert: num >= 1" ELSE "none",
        sid |-> final,
        scope |-> [L \in LambdaIds |-> L \in n0.members /\ L \in n1.visited],
        rpo |-> SubSeq(sorted, 1, num)]

\* ------------------------------------------------- Scope edges and DomTree
\* Scope::contains: the lambda's scope_ points to this Scope
Contains(sc, L) == sc[L]

\* Scope::succs / Scope::preds: Lambda::succs() / Lambda::preds() restricted
\* to the lambdas the Scope contains, in the order the Lambda yields them
ScopeSuccs(g, sc, L) == SelectSeq(Succs(g, L), LAMBDA M : Contains(sc, M))
ScopePreds(g, sc, L) == SelectSeq(Preds(g, L), LAMBDA M : Contains(sc, M))

\* Scope::body: rpo() without the leading entries
Body(rs, es) == SubSeq(rs, Len(es) + 1, Len(rs))

\* Scope::backwards_rpo: the array is allocated with size() slots and the
\* exits are counted; no slot and no backwards_sid_ is written
BackwardsRpo(g, sc, rs, br, ne) ==
    IF br # <<>> THEN [backwards_rpo |-> br, num_exits |-> ne]
    ELSE [backwards_rpo |-> [k \in 1..Len(rs) |-> ""],
          num_exits |-> Cardinality({k \in 1..Len(rs) : Len(ScopeSuccs(g, sc, rs[k])) = 0})]

\* Scope::exits: the first num_exits() slots of backwards_rpo()
Exits(br, ne) == SubSeq(br, 1, ne)

\* DomTree::lca: the node with the larger index moves to its idom until the
\* indices agree.  A node that is its own idom and has to move never moves:
\* the inner while loop runs forever (hang).
RECURSIVE Lca(_, _, _, _, _)
Lca(id, ix, i, j, fuel) ==
    IF ix[i] = ix[j] THEN [val |-> i, hang |-> FALSE]
    ELSE IF fuel = 0 THEN [val |-> "", hang |-> TRUE]
    ELSE IF ix[i] < ix[j]
         THEN IF id[j] = j THEN [val |-> "", hang |-> TRUE]
              ELSE Lca(id, ix, i, id[j], fuel - 1)
         ELSE IF id[i] = i THEN [val |-> "", hang |-> TRUE]
              ELSE Lca(id, ix, id[i], j, fuel - 1)

\* "new_idom = new_idom ? lca(new_idom, pred_node) : pred_node" over the preds
RECURSIVE NewIdom(_, _, _, _)
NewIdom(id, ix, preds, acc) ==
    IF preds = <<>> THEN [val |-> acc, hang |-> FALSE]
    ELSE IF acc = "" THEN NewIdom(id, ix, Tail(preds), Head(preds))
    ELSE LET r == Lca(id, ix, acc, Head(preds), 2 * Len(LambdaOrder))
         IN IF r.hang THEN r ELSE NewIdom(id, ix, Tail(preds), r.val)

\* the first predecessor with a smaller index ("" when there is none)
FirstDominatingPred(ix, preds, L) ==
    LET lower == SelectSeq(preds, LAMBDA M : ix[M] < ix[L])
    IN IF lower = <<>> THEN "" ELSE Head(lower)

\* one pass of the fixed-point loop over the body, in order
RECURSIVE Sweep(_, _, _, _, _)
Sweep(g, sc, ix, d, body) ==
    IF body = <<>> \/ d.fault # "none" THEN d
    ELSE LET L == Head(body)
             r == NewIdom(d.idom, ix, ScopePreds(g, sc, L), "")
         IN IF r.hang THEN [d EXCEPT !.fault = "diverges: DomTree::lca"]
            ELSE IF r.val = "" THEN [d EXCEPT !.fault = "assert: new_idom"]
            ELSE IF d.idom[L] # r.val
                 THEN Sweep(g, sc, ix, [d EXCEPT !.idom[L] = r.val, !.changed = TRUE], Tail(body))
                 ELSE Sweep(g, sc, ix, d, Tail(body))

\* "for (bool changed = true; changed;)": `rounds` passes are always enough
\* for a loop that ends, since every pass that changes something moves an
\* idom to a smaller index
RECURSIVE FixedPoint(_, _, _, _, _, _)
FixedPoint(g, sc, ix, d, body, rounds) ==
    LET n == Sweep(g, sc, ix, [d EXCEPT !.changed = FALSE], body)
    IN IF n.fault # "none" \/ ~n.changed THEN n
       ELSE IF rounds = 0 THEN [n EXCEPT !.fault = "diverges: DomTree::create"]
       ELSE FixedPoint(g, sc, ix, n, body, rounds - 1)

\* DomTree::create for the forward tree: index = sid
Create(g, sc, ix, rs, es) ==
    LET body == Body(rs, es)
        first == [L \in LambdaIds |->
                    IF \E k \in 1..Len(es) : es[k] = L THEN L
                    ELSE IF \E k \in 1..Len(body) : body[k] = L
                         THEN FirstDominatingPred(ix, ScopePreds(g, sc, L), L)
                         ELSE ""]
    IN IF \E k \in 1..Len(body) : first[body[k]] = ""
       THEN [idom |-> first, changed |-> FALSE, fault |-> "unreachable: DomTree::create"]
       ELSE FixedPoint(g, sc, ix, [idom |-> first, changed |-> FALSE, fault |-> "none"],
                       body, Len(LambdaOrder) * Len(LambdaOrder))

\* ------------------------------------------------------------ Mangler
\* The Mangler's state: the graph it extends, the map it keeps in Def::cptr
\* (pairs <<old, new>>; a def is visited when it has a pair), its inputs, the
\* log of its mangle_body calls and the fault that stopped it.
NewMangler(g, sc, oentry, nentry, to_drop, drop_with, to_lift, tfirst) ==
    [g |-> g, sc |-> sc, oentry |-> oentry, nentry |-> nentry, to_drop |-> to_drop,
     drop_with |-> drop_with, to_lift |-> to_lift, tfirst |-> tfirst,
     cptr |-> {}, bodies |-> <<>>, fault |-> "none"]

\* ArrayRef::cut(to_drop, add): the elements at the indices outside to_drop,
\* in order, followed by `add` slots still to be filled
Cut(seq, to_drop, add) ==
    LET idx == [k \in 1..Len(seq) |-> k - 1]
        keep == SelectSeq(idx, LAMBDA i : \A j \in 1..Len(to_drop) : to_drop[j] # i)
    IN [k \in 1..Len(keep) |-> seq[keep[k] + 1]] \o [k \in 1..add |-> Null]

\* Def::type
RECURSIVE TypeOf(_, _)
TypeOf(g, d) ==
    IF IsPar(d) THEN g.params[d[2]][d[3] + 1]
    ELSE IF IsLam(d) THEN "fn"
    ELSE IF IsSel(d) THEN TypeOf(g, g.sels[d[3]][2])
    ELSE d[2]

\* Def::is_visited(pass)
Visited(m, d) == \E p \in m.cptr : p[1] = d
\* Mangler::lookup
Lookup(m, d) == (CHOOSE p \in m.cptr : p[1] = d)[2]
\* Mangler::map
Map(m, d, to) == [m EXCEPT !.cptr = {p \in @ : p[1] # d} \cup {<<d, to>>}]
\* map(def, def): the def stands for itself
MapSelf(m, d) == [m |-> Map(m, d, d), val |-> d]

\* the lambda World::lambda hands out next to the Mangler
FreshLambda(g) ==
    MangleLambdas[CHOOSE k \in 1..Len(MangleLambdas) :
                     /\ MangleLambdas[k] \notin g.created
                     /\ \A j \in 1..(k - 1) : MangleLambdas[j] \in g.created]

\* Lambda::stub: a fresh lambda of the same function type
Stub(g, o, n) == WorldLambda(g, n, g.pi[o])

\* Mangler::mangle_head: the stub n of o, and o's parameters mapped to n's
HeadParams(m, o, n) ==
    LET F[k \in 0..Len(m.g.params[o])] ==
            IF k = 0 THEN m ELSE Map(F[k - 1], Par(o, k - 1), Par(n, k - 1))
    IN F[Len(m.g.params[o])]
StubHead(m, o, n) ==
    [m |-> HeadParams(Map([m EXCEPT !.g = Stub(@, o, n)], Lam(o), Lam(n)), o, n),
     val |-> Lam(n)]
MangleHead(m, o) == StubHead(m, o, FreshLambda(m.g))

\* World::rebuild of a Select whose mangled operands are a.vals; the old node
\* is kept when no operand changed
Rebuilt(m, d, r) == [m |-> Map([m EXCEPT !.g = r.g], d, r.val), val |-> r.val]
Rebuild(a, d) ==
    IF a.vals # a.m.g.sels[d[3]]
    THEN Rebuilt(a.m, d, WorldSelect(a.m.g, a.vals[1], a.vals[2], a.vals[3]))
    ELSE MapSelf(a.m, d)

\* Mangler::mangle(const Def*), and the defs of a list mangled one after the other
RECURSIVE MangleDef(_, _)
Pushed(acc, r) == [m |-> r.m, vals |-> Append(acc.vals, r.val)]
MangleAll(m, ds) ==
    LET F[k \in 0..Len(ds)] ==
            IF k = 0 THEN [m |-> m, vals |-> <<>>]
            ELSE Pushed(F[k - 1], MangleDef(F[k - 1].m, ds[k]))
    IN F[Len(ds)]
MangleDef(m, d) ==
    IF Visited(m, d) THEN [m |-> m, val |-> Lookup(m, d)]
    ELSE IF IsLam(d)
    THEN IF Contains(m.sc, d[2]) THEN MangleHead(m, d[2]) ELSE MapSelf(m, d)
    ELSE IF IsPar(d) THEN MapSelf(m, d)
    ELSE IF IsSel(d) THEN Rebuild(MangleAll(m, m.g.sels[d[3]]), d)
    ELSE MapSelf(m, d)

\* the callee of the copy: a Select is folded when its mangled condition is a
\* literal, else rebuilt from its mangled sides (the two sides are arguments
\* of one call, evaluated in the order the build chose)
Interned(m, r) == [m |-> [m EXCEPT !.g = r.g], val |-> r.val]
SelectSides(a, cond) ==
    Interned(a.m, WorldSelect(a.m.g, cond,
                              IF a.m.tfirst THEN a.vals[1] ELSE a.vals[2],
                              IF a.m.tfirst THEN a.vals[2] ELSE a.vals[1]))
FoldSelect(c, s) ==
    IF IsBoolLit(c.val)
    THEN MangleDef(c.m, IF c.val[3] = 1 THEN s[2] ELSE s[3])
    ELSE SelectSides(MangleAll(c.m, IF c.m.tfirst THEN <<s[2], s[3]>> ELSE <<s[3], s[2]>>),
                     c.val)
MangleTo(m, to) ==
    IF IsSel(to) THEN FoldSelect(MangleDef(m, m.g.sels[to[3]][1]), m.g.sels[to[3]])
    ELSE MangleDef(m, to)

\* a tail recursion test that always succeeds
SubstituteAlways(nargs, to_drop, drop_with) == 1

\* the tail recursion test of mangle_body: 1 when every argument at a dropped
\* index is the value dropped there, 0 when one differs, -1 when the test
\* reads past the arguments
Substitute(nargs, to_drop, drop_with) ==
    LET bad == {i \in 1..Len(to_drop) :
                   \/ to_drop[i] >= Len(nargs)
                   \/ nargs[to_drop[i] + 1] # drop_with[i]}
        first == CHOOSE i \in bad : \A j \in bad : i <= j
    IN IF bad = {} THEN 1 ELSE IF to_drop[first] >= Len(nargs) THEN -1 ELSE 0

\* the jump mangle_body gives the copy n
TailJump(m, n, ntarget, nargs, sub) ==
    IF sub = -1 THEN [m EXCEPT !.fault = "assert: ArrayRef index"]
    ELSE IF sub = 1
    THEN [m EXCEPT !.g = Jump(@, n, Lam(m.nentry), Cut(nargs, m.to_drop, 0))]
    ELSE [m EXCEPT !.g = Jump(@, n, ntarget, nargs)]
Logged(m, o, n, ntarget, nargs) ==
    [m EXCEPT !.bodies = Append(@, [olambda |-> o, nlambda |-> n,
                                    ntarget |-> ntarget, nargs |-> nargs])]
NewJump(t, o, n, nargs) ==
    TailJump(Logged(t.m, o, n, t.val, nargs), n, t.val, nargs,
             IF t.val = Lam(t.m.oentry)
             THEN Substitute(nargs, t.m.to_drop, t.m.drop_with) ELSE 0)
NewTarget(a, o, n) == NewJump(MangleTo(a.m, a.m.g.ops[o][1]), o, n, a.vals)

\* Mangler::mangle_body
MangleBody(m, o, n) ==
    IF m.g.ops[o] = <<>> \/ \E k \in 1..Len(m.g.ops[o]) : m.g.ops[o][k] = Null
    THEN [m EXCEPT !.fault = "undefined: mangle_body without a body"]
    ELSE NewTarget(MangleAll(m, Tail(m.g.ops[o])), o, n)

\* the parameters of the old entry: a dropped one is mapped to its value, a
\* retained one to the next parameter of the new entry
\* a retained parameter mapped to the new parameter of the same index
MapParamUncompacted(p, op) ==
    IF p.i < Len(p.m.to_drop) /\ p.m.to_drop[p.i + 1] = op
    THEN [m |-> Map(p.m, Par(p.m.oentry, op), p.m.drop_with[p.i + 1]),
          np |-> p.np, i |-> p.i + 1]
    ELSE [m |-> Map(p.m, Par(p.m.oentry, op), Par(p.m.nentry, op)),
          np |-> p.np + 1, i |-> p.i]
MapParam(p, op) ==
    IF p.i < Len(p.m.to_drop) /\ p.m.to_drop[p.i + 1] = op
    THEN [m |-> Map(p.m, Par(p.m.oentry, op), p.m.drop_with[p.i + 1]),
          np |-> p.np, i |-> p.i + 1]
    ELSE [m |-> Map(p.m, Par(p.m.oentry, op), Par(p.m.nentry, p.np)),
          np |-> p.np + 1, i |-> p.i]
MapParams(m, size) ==
    LET P[k \in 0..size] ==
            IF k = 0 THEN [m |-> m, np |-> 0, i |-> 0] ELSE MapParam(P[k - 1], k - 1)
    IN P[size].m

\* the lifted defs are mapped to the parameters appended for them
MapLifted(m, offset) ==
    LET F[x \in 0..Len(m.to_lift)] ==
            IF x = 0 THEN m ELSE Map(F[x - 1], m.to_lift[x], Par(m.nentry, offset + x - 1))
    IN F[Len(m.to_lift)]

\* the bodies of the lambdas after the entry, in rpo order: only of those a
\* body mangled before has visited
MangleNext(m, cur) ==
    IF m.fault # "none" THEN m
    ELSE IF Visited(m, Lam(cur)) THEN MangleBody(m, cur, Lookup(m, Lam(cur))[2])
    ELSE m
MangleRest(m, rest) ==
    LET F[k \in 0..Len(rest)] == IF k = 0 THEN m ELSE MangleNext(F[k - 1], rest[k])
    IN F[Len(rest)]

\* the function type of the new entry
MangleEntryTypes(g, o_pi, to_drop, to_lift) ==
    LET offset == Len(o_pi) - Len(to_drop)
        nelems == Cut(o_pi, to_drop, Len(to_lift))
    IN [k \in 1..Len(nelems) |->
           IF k > offset THEN TypeOf(g, to_lift[k - offset]) ELSE nelems[k]]

\* the entry is mapped to itself and its body goes to the new entry
MangleEntry(m) ==
    MangleBody(Map(m, Lam(m.oentry), Lam(m.oentry)), m.oentry, m.nentry)

\* Mangler::mangle()
Mangle(g, sc, rs, es, to_drop, drop_with, to_lift, tfirst) ==
    IF Len(es) # 1
    THEN [NewMangler(g, sc, "", "", to_drop, drop_with, to_lift, tfirst)
             EXCEPT !.fault = "assert: num_entries == 1"]
    ELSE MangleRest(
             MangleEntry(
                 MapLifted(
                     MapParams(
                         NewMangler(WorldLambda(g, FreshLambda(g),
                                                MangleEntryTypes(g, g.pi[es[1]], to_drop, to_lift)),
                                    sc, es[1], FreshLambda(g), to_drop, drop_with, to_lift,
                                    tfirst),
                         Len(g.pi[es[1]])),
                     Len(g.pi[es[1]]) - Len(to_drop))),
             SubSeq(rs, 2, Len(rs)))

\* ------------------------------------------------------------ lower2cff
\* Type::order: 0 for a first-order value, positive for a function
Order(ty) == IF ty = "fn" THEN 1 ELSE 0
\* the indices of the parameters of L that are functions
HigherOrder(g, L) == {i \in 1..Len(g.params[L]) : Order(g.params[L][i]) > 0}
\* Lambda::is_basicblock: no parameter is a function
IsBasicblock(g, L) == HigherOrder(g, L) = {}
\* Lambda::is_returning: the return continuation is the only function taken
IsReturning(g, L) == Cardinality(HigherOrder(g, L)) <= 1

\* Scope scope(lambda)
ScopeOf(g, e) ==
    Process(g, Analyze(g, [marked |-> {}, rpo |-> <<>>, todo |-> <<>>, limit |-> Null],
                       <<e>>).rpo,
            [n \in LambdaIds |-> -1], <<e>>)

\* Scope::for_each: the lambdas whose scope is visited, in gid order: those
\* with a body that lie in no other lambda's scope
InScopeOf(g, L, M) == M # L /\ ScopeOf(g, M).scope[L]
TopLevel(g) ==
    SelectSeq(LambdaOrder,
              LAMBDA L : /\ L \in g.created
                         /\ g.ops[L] # <<>>
                         /\ \A M \in g.created : ~InScopeOf(g, L, M))

\* scope.f_cfg().po()
PostOrder(r) == [k \in 1..Len(r.rpo) |-> r.rpo[Len(r.rpo) + 1 - k]]

\* the state of one run of lower2cff; `sig` and `cptr` describe the last
\* specialization made
NewLowering(g) ==
    [g |-> g, cache |-> {}, top |-> {}, local |-> TRUE, todo |-> TRUE, fault |-> "none",
     sig |-> <<>>, cptr |-> {}, nentry |-> "", log |-> <<>>, drops |-> <<>>, calls |-> <<>>]

\* is_bad(to) in the scope r of the entry e
IsBad(w, r, e, to) ==
    IF w.g.ops[to] = <<>> THEN FALSE
    ELSE IF w.local THEN r.scope[to] /\ to # e /\ ~IsBasicblock(w.g, to)
    ELSE IF to \in w.top THEN ~IsReturning(w.g, to) /\ ~r.scope[to]
    ELSE ~IsBasicblock(w.g, to)

\* ops[0] = to; ops[i] = the argument if the parameter is a function, else null
DropKey(g, L, to) ==
    <<Lam(to)>> \o [i \in 1..NumArgs(g, L) |->
                      IF Order(g.params[to][i]) > 0 THEN Arg(g, L, i - 1) ELSE Null]
\* the indices and the values the key drops, and the arguments that stay
KeyIndices(key) ==
    SelectSeq([i \in 1..(Len(key) - 1) |-> i - 1], LAMBDA i : key[i + 2] # Null)
KeyValues(key) == SelectSeq(Tail(key), LAMBDA d : d # Null)
RemainingArgs(g, L, key) ==
    LET idx == SelectSeq([i \in 1..(Len(key) - 1) |-> i], LAMBDA i : key[i + 1] = Null)
    IN [k \in 1..Len(idx) |-> Arg(g, L, idx[k] - 1)]

\* a cache that never holds a key
CachedNever(w, key) == FALSE
Cached(w, key) == \E p \in w.cache : p[1] = key
CachedTarget(w, key) == (CHOOSE p \in w.cache : p[1] = key)[2]

\* what a def is with respect to the last specialization: the copy it made
\* of a lambda of the specialized scope, or a def it did not make
OriginOf(w, d) ==
    IF d = Lam(w.nentry) /\ w.sig # <<>> THEN <<"copy", w.sig[1]>>
    ELSE IF \E p \in w.cptr : p[2] = d /\ IsLam(p[1]) /\ p[1] # d
    THEN <<"copy", (CHOOSE p \in w.cptr : p[2] = d /\ IsLam(p[1]) /\ p[1] # d)[1]>>
    ELSE <<"same", d>>
\* the callee, the origin of the call site and the origins of the key
Signature(w, L, key) ==
    <<key[1], OriginOf(w, Lam(L))>> \o [i \in 1..(Len(key) - 1) |-> OriginOf(w, key[i + 1])]
\* The specialization about to be made repeats the last one up to the names
\* of the copies: the call site is the copy of the last call site, the key
\* holds the copies where the last key held the copies of the one before.
\* Its result is then the last result renamed, with the same call again, and
\* no key ever comes back: the loop of lower2cff has no end.
Repeats(w, L, key) ==
    /\ w.sig # <<>>
    /\ Signature(w, L, key) = w.sig
    /\ \E i \in 2..Len(w.sig) : w.sig[i][1] = "copy"

\* the lambdas World::lambda can still hand out
FreeLambdas(g) == {k \in 1..Len(MangleLambdas) : MangleLambdas[k] \notin g.created}

\* target = drop(to_scope, ops.skip_front(), map), and its entry in the cache
Specialization(w, L, key, m) ==
    IF m.fault # "none" THEN [w EXCEPT !.fault = m.fault]
    ELSE [w EXCEPT !.g = m.g, !.cache = @ \cup {<<key, m.nentry>>},
                   !.sig = Signature(w, L, key), !.cptr = m.cptr, !.nentry = m.nentry,
                   !.drops = Append(@, [key |-> key, target |-> m.nentry])]
DropTarget(w, L, key, r) ==
    IF Repeats(w, L, key) THEN [w EXCEPT !.fault = "diverges: lower2cff"]
    ELSE IF Cardinality(FreeLambdas(w.g)) < Len(r.rpo)
    THEN [w EXCEPT !.fault = "out of lambdas"]
    ELSE Specialization(w, L, key,
                  Mangle(w.g, r.scope, r.rpo, <<key[1][2]>>, KeyIndices(key),
                         KeyValues(key), <<>>, TRUE))
Specialized(w, L, key) ==
    IF Cached(w, key) THEN w ELSE DropTarget(w, L, key, ScopeOf(w.g, key[1][2]))

\* lambda->jump(target, nargs)
JumpToTarget(w, L, key) ==
    IF w.fault # "none" THEN w
    ELSE [w EXCEPT !.g = Jump(@, L, Lam(CachedTarget(w, key)), RemainingArgs(w.g, L, key)),
                   !.todo = TRUE,
                   !.calls = Append(@, [lambda |-> L, key |-> key,
                                        args |-> Tail(w.g.ops[L]),
                                        target |-> CachedTarget(w, key),
                                        nargs |-> RemainingArgs(w.g, L, key)])]

\* one lambda of the scope: a bad callee is replaced by its specialization
LowerCall(w, r, e, L) ==
    IF w.fault # "none" \/ w.g.ops[L] = <<>> \/ ~IsLam(w.g.ops[L][1]) THEN w
    ELSE IF ~IsBad(w, r, e, w.g.ops[L][1][2]) THEN w
    ELSE IF NumArgs(w.g, L) # Len(w.g.params[w.g.ops[L][1][2]])
    THEN [w EXCEPT !.fault = "assert: infer_with"]
    ELSE JumpToTarget(Specialized(w, L, DropKey(w.g, L, w.g.ops[L][1][2])), L,
                      DropKey(w.g, L, w.g.ops[L][1][2]))

\* the body of Scope::for_each's callback for the scope of e
LowerCalls(w, r, e, po) ==
    LET F[k \in 0..Len(po)] == IF k = 0 THEN w ELSE LowerCall(F[k - 1], r, e, po[k])
    IN F[Len(po)]
Entered(w, e) == IF w.fault # "none" THEN w ELSE [w EXCEPT !.top = @ \cup {e}]
LowerScope(w, e) ==
    IF w.fault # "none" THEN w
    ELSE Entered(LowerCalls(w, ScopeOf(w.g, e), e, PostOrder(ScopeOf(w.g, e))), e)

\* one round of the loop: every scope is visited; a round without a bad call
\* ends the local phase
Round(w, tops) ==
    LET F[k \in 0..Len(tops)] == IF k = 0 THEN w ELSE LowerScope(F[k - 1], tops[k])
    IN F[Len(tops)]
\* what the run notes down of itself: a sweep with its phase and whether it
\* found a bad call, the switch of the phase, the cleanup, the verifier
Event(ev, local, bad) == [ev |-> ev, local |-> local, bad |-> bad]
Swept(w) ==
    IF w.fault # "none" THEN w
    ELSE [w EXCEPT !.log = Append(@, Event("sweep", w.local, w.todo))]
\* a switch to the global phase after the first sweep, whatever it found
SwitchPhaseEarly(w) ==
    IF w.fault = "none" /\ w.local
    THEN [w EXCEPT !.local = FALSE, !.todo = TRUE,
                   !.log = Append(@, Event("switch", FALSE, FALSE))]
    ELSE w
SwitchPhase(w) ==
    IF w.fault = "none" /\ ~w.todo /\ w.local
    THEN [w EXCEPT !.local = FALSE, !.todo = TRUE,
                   !.log = Append(@, Event("switch", FALSE, FALSE))]
    ELSE w
RECURSIVE Rounds(_, _)
Rounds(w, fuel) ==
    IF w.fault # "none" \/ ~(w.todo \/ w.local) THEN w
    ELSE IF fuel = 0 THEN [w EXCEPT !.fault = "out of rounds"]
    ELSE Rounds(SwitchPhase(Swept(Round([w EXCEPT !.todo = FALSE], TopLevel(w.g)))),
                fuel - 1)

\* World::cleanup: what the external lambdas do not reach is removed
RECURSIVE Reaches(_, _, _)
Reaches(g, R, n) ==
    IF n = 0 THEN R
    ELSE Reaches(g, R \cup {M \in g.created : \E L \in R : \E k \in 1..Len(Succs(g, L)) :
                                                 Succs(g, L)[k] = M}, n - 1)
Remove(g, dead) ==
    LET F[k \in 0..Len(LambdaOrder)] ==
            IF k = 0 THEN g
            ELSE IF LambdaOrder[k] \in dead THEN UnsetOps(F[k - 1], LambdaOrder[k])
            ELSE F[k - 1]
    IN [F[Len(LambdaOrder)] EXCEPT !.created = @ \ dead,
                                   !.ops = [L \in LambdaIds |-> IF L \in dead THEN <<>> ELSE @[L]]]
Cleanup(g, externals) ==
    Remove(g, g.created \ Reaches(g, externals \cap g.created, Len(LambdaOrder)))

\* the closing check: no function parameter of a non-entry lambda of a scope
\* is an operand in that scope
HigherOrderInside(g, e) ==
    \E L \in LambdaIds : \E k \in 1..Len(g.ops[L]) :
        /\ ScopeOf(g, e).scope[L]
        /\ IsPar(g.ops[L][k])
        /\ Order(TypeOf(g, g.ops[L][k])) > 0
        /\ g.ops[L][k][2] # e
        /\ ScopeOf(g, e).scope[g.ops[L][k][2]]
Verified(g) ==
    IF \E k \in 1..Len(TopLevel(g)) : HigherOrderInside(g, TopLevel(g)[k])
    THEN Fail(g, "assert: order") ELSE g
Cleaned(w, externals) ==
    IF w.fault # "none" THEN w
    ELSE [w EXCEPT !.g = Cleanup(@, externals),
                   !.fault = Verified(Cleanup(w.g, externals)).fault,
                   !.log = @ \o <<Event("cleanup", w.local, FALSE),
                                  Event("verify", w.local, FALSE)>>]

\* lower2cff(world)
Lower2cff(g, externals) == Cleaned(Rounds(NewLowering(g), MaxRounds), externals)

\* -------------------------------------------------------------- PassMgr
\* Type::order of the type of a nominal: one above the orders of what it takes
TypeOrder(g, L) == IF HigherOrder(g, L) = {} THEN 1 ELSE 2
\* PassMgr::State::OrderLt
OrderLt(g, a, b) == TypeOrder(g, a) < TypeOrder(g, b)
\* the queue of the first State
NewQueue == [n \in LambdaIds |-> 0]
\* std::priority_queue::size
RECURSIVE QueueSum(_, _)
QueueSum(q, k) == IF k = 0 THEN 0 ELSE q[LambdaOrder[k]] + QueueSum(q, k - 1)
QueueSize(q) == QueueSum(q, Len(LambdaOrder))
\* PassMgr::enqueue: queue.push(nominal)
Enqueue(q, L) == [q EXCEPT ![L] = @ + 1]
\* std::priority_queue<Def*, std::deque<Def*>, OrderLt>::top: an element that
\* the comparison puts before no other one; which of several such elements
\* it is depends on the heap
QueueTop(g, q) ==
    {L \in LambdaIds : q[L] > 0 /\ \A M \in LambdaIds : q[M] > 0 => ~OrderLt(g, L, M)}
\* std::priority_queue::pop of the element that was the top
QueuePop(q, L) == [q EXCEPT ![L] = @ - 1]

\* ------------------------------------------------------------ the machine
\* the parameters the client gave each lambda at World::lambda(pi)
ClientPi == [n \in LambdaIds |-> IF n = "A" THEN <<"int">> ELSE <<>>]

\* no Mangler has run
NoMangle == [nentry |-> "", oentry |-> "", to_drop |-> <<>>, drop_with |-> <<>>,
             to_lift |-> <<>>, cptr |-> {}, bodies |-> <<>>, members |-> <<>>]

\* lower2cff has not run
NoLowering == [log |-> <<>>, drops |-> <<>>, calls |-> <<>>]

NoOp == [op |-> "none", lam |-> "", handle |-> 0, ret |-> Null,
         fixes |-> <<>>, removes |-> <<>>, diverged |-> {}, members |-> {}]

\* Lambda::Lambda: no operands, no uses, parent_ = this, not visited; the
\* lambdas are created unsealed and without a live Scope (sid_ = size_t(-1))
Init ==
    /\ ops = [n \in LambdaIds |-> <<>>]
    /\ uses = {}
    /\ params = ClientPi
    /\ pi = ClientPi
    /\ sealed = [n \in LambdaIds |-> FALSE]
    /\ visited = [n \in LambdaIds |-> FALSE]
    /\ parent = [n \in LambdaIds |-> Lam(n)]
    /\ tracked = [n \in LambdaIds |-> [h \in Handles |-> Null]]
    /\ todos = [n \in LambdaIds |-> <<>>]
    /\ sels = <<>>
    /\ created = {BaseLambdas[k] : k \in 1..Len(BaseLambdas)}
    /\ ssa = {}
    /\ gone = {}
    /\ given = [n \in LambdaIds |-> [h \in Handles |-> Null]]
    /\ fault = "none"
    /\ last = NoOp
    /\ steps = 0
    /\ sid = [n \in LambdaIds |-> -1]
    /\ scope = [n \in LambdaIds |-> FALSE]
    /\ rpo = <<>>
    /\ entries = <<>>
    /\ scopes = 0
    /\ idom = [n \in LambdaIds |-> ""]
    /\ backwards_rpo = <<>>
    /\ backwards_sid = [n \in LambdaIds |-> -1]
    /\ num_exits = -1
    /\ mangled = NoMangle
    /\ top = {}
    /\ lowering = NoLowering
    /\ queue = NewQueue

\* the program runs on while no fault has aborted it
Running == fault = "none"

\* the outcome of one client operation: the new graph, or the abort
Commit(g, op, L, handle, ret) ==
    /\ steps' = steps + 1
    /\ fault' = g.fault
    /\ last' = IF Ok(g)
               THEN [op |-> op, lam |-> L, handle |-> handle, ret |-> ret,
                     fixes |-> g.fixes, removes |-> g.removes, diverged |-> g.diverged,
                     members |-> {}]
               ELSE [NoOp EXCEPT !.op = op, !.lam = L, !.handle = handle]
    /\ IF Ok(g)
       THEN /\ ops' = g.ops /\ uses' = g.uses /\ params' = g.params /\ pi' = g.pi
            /\ sealed' = g.sealed /\ visited' = g.visited /\ parent' = g.parent
            /\ tracked' = g.tracked /\ todos' = g.todos /\ sels' = g.sels
            /\ created' = g.created /\ ssa' = g.ssa /\ gone' = g.gone
       ELSE UNCHANGED graphVars
    /\ UNCHANGED <<scopeVars, toolVars>>

\* L.jump(to, args)
DoJump(L, to, args) ==
    /\ Running
    /\ Commit(Jump(Graph, L, to, args), "jump", L, 0, Null)
    /\ UNCHANGED given

\* L.branch(cond, tto, fto)
DoBranch(L, cond, tto, fto) ==
    /\ Running
    /\ Commit(Branch(Graph, L, cond, tto, fto), "branch", L, 0, Null)
    /\ UNCHANGED given

\* L.call(to, args, ret_type); the World hands out the next free lambda
DoCall(L, to, args, ret_type) ==
    /\ Running
    /\ \E k \in 1..Len(PoolLambdas) :
          /\ PoolLambdas[k] \notin created
          /\ \A j \in 1..(k - 1) : PoolLambdas[j] \in created
          /\ Commit(Call(Graph, L, to, args, ret_type, PoolLambdas[k]),
                    "call", L, 0, Lam(PoolLambdas[k]))
    /\ UNCHANGED given

\* L.update_op(i, def), i an operand index of L
DoUpdateOp(L, i, def) ==
    /\ Running
    /\ i < Len(ops[L])
    /\ Commit(UpdateOp(Graph, L, i, def), "update_op", L, 0, Null)
    /\ UNCHANGED given

\* L.append_arg(arg)
DoAppendArg(L, arg) ==
    /\ Running
    /\ Commit(AppendArg(Graph, L, arg), "append_arg", L, 0, arg)
    /\ UNCHANGED given

\* L.set_parent(p)
DoSetParent(L, p) ==
    /\ Running
    /\ Commit([Graph EXCEPT !.parent[L] = p], "set_parent", L, 0, Null)
    /\ UNCHANGED given

\* L.set_value(handle, def)
DoSetValue(L, handle, def) ==
    /\ Running
    /\ LET r == SetValue(Graph, L, handle, def)
       IN Commit(r.g, "set_value", L, handle, r.val)
    /\ given' = [given EXCEPT ![L][handle] = def]

\* L.get_value(handle, type, name)
DoGetValue(L, handle, type) ==
    /\ Running
    /\ LET m == Start(Graph, Frame("get_value", L, handle, type, 0))
       IN Commit(m.g, "get_value", L, handle, m.ret)
    /\ UNCHANGED given

\* L.seal()
DoSeal(L) ==
    /\ Running
    /\ Commit(Start(Graph, Frame("seal", L, 0, "", 0)).g, "seal", L, 0, Null)
    /\ UNCHANGED given

\* Scope::Scope(world, entries): analyze, then process
DoScope(es) ==
    /\ Running
    /\ entries = <<>>
    /\ LET a == Analyze(Graph, [marked |-> {}, rpo |-> <<>>, todo |-> <<>>, limit |-> Null], es)
           r == Process(Graph, a.rpo, sid, es)
       IN /\ fault' = r.fault
          /\ last' = [NoOp EXCEPT !.op = "scope",
                                  !.members = {a.rpo[k] : k \in 1..Len(a.rpo)}]
          /\ IF r.fault = "none"
             THEN sid' = r.sid /\ scope' = r.scope /\ rpo' = r.rpo /\ entries' = es
             ELSE UNCHANGED <<sid, scope, rpo, entries>>
    /\ scopes' = scopes + 1
    /\ UNCHANGED <<graphVars, given, steps, toolVars>>

\* Scope::~Scope: the members' scope_ is reset; sid_ is left as it is
DoScopeEnd ==
    /\ Running
    /\ entries # <<>>
    /\ scope' = [L \in LambdaIds |-> FALSE]
    /\ rpo' = <<>>
    /\ entries' = <<>>
    /\ last' = [NoOp EXCEPT !.op = "~scope"]
    /\ UNCHANGED <<graphVars, given, steps, fault, sid, scopes, toolVars>>

\* Scope::domtree(): the forward DomTree of the live Scope is built once
DoDomTree ==
    /\ Running
    /\ entries # <<>>
    /\ \A L \in LambdaIds : idom[L] = ""
    /\ LET d == Create(Graph, scope, sid, rpo, entries)
       IN /\ fault' = d.fault
          /\ idom' = IF d.fault = "none" THEN d.idom ELSE idom
    /\ last' = [NoOp EXCEPT !.op = "domtree"]
    /\ UNCHANGED <<graphVars, given, steps, scopeVars, backwards_rpo, backwards_sid,
                   num_exits, mangled, top, lowering, queue>>

\* Scope::mangle(to_drop, drop_with, to_lift) on the live Scope; clone(),
\* drop() and lift() are this call with the other lists empty. The Mangler
\* only adds to the graph; its map and its log are kept for inspection.
DoMangle(to_drop, drop_with, to_lift, tfirst) ==
    /\ Running
    /\ entries # <<>>
    /\ mangled.nentry = ""
    /\ LET m == Mangle(Graph, scope, rpo, entries, to_drop, drop_with, to_lift, tfirst)
       IN /\ fault' = m.fault
          /\ IF m.fault = "none"
             THEN /\ ops' = m.g.ops /\ uses' = m.g.uses /\ params' = m.g.params
                  /\ pi' = m.g.pi /\ sels' = m.g.sels /\ created' = m.g.created
                  /\ mangled' = [nentry |-> m.nentry, oentry |-> m.oentry,
                                 to_drop |-> to_drop, drop_with |-> drop_with,
                                 to_lift |-> to_lift, cptr |-> m.cptr,
                                 bodies |-> m.bodies, members |-> rpo]
             ELSE UNCHANGED <<ops, uses, params, pi, sels, created, mangled>>
    /\ last' = [NoOp EXCEPT !.op = "mangle"]
    /\ UNCHANGED <<sealed, visited, parent, tracked, todos, ssa, gone, given, steps,
                   scopeVars, idom, backwards_rpo, backwards_sid, num_exits, top, lowering, queue>>

\* lower2cff(world), the world's external lambdas being `externals`
Lowered(w) ==
    /\ fault' = w.fault
    /\ lowering' = [log |-> w.log, drops |-> w.drops, calls |-> w.calls]
    /\ IF w.fault = "none"
       THEN /\ ops' = w.g.ops /\ uses' = w.g.uses /\ params' = w.g.params
            /\ pi' = w.g.pi /\ sels' = w.g.sels /\ created' = w.g.created
            /\ top' = w.top
       ELSE UNCHANGED <<ops, uses, params, pi, sels, created, top>>
DoLower2cff(externals) ==
    /\ Running
    /\ last.op # "lower2cff"
    /\ \A L \in externals : ops[L] # <<>>
    /\ Lowered(Lower2cff(Graph, externals))
    /\ last' = [NoOp EXCEPT !.op = "lower2cff"]
    /\ UNCHANGED <<sealed, visited, parent, tracked, todos, ssa, gone, given, steps,
                   scopeVars, idom, backwards_rpo, backwards_sid, num_exits, mangled, queue>>

\* PassMgr::enqueue(nominal)
DoEnqueue(L) ==
    /\ Running
    /\ QueueSize(queue) < MaxQueue
    /\ queue' = Enqueue(queue, L)
    /\ last' = [NoOp EXCEPT !.op = "enqueue", !.lam = L]
    /\ UNCHANGED <<graphVars, given, steps, fault, scopeVars, idom, backwards_rpo,
                   backwards_sid, num_exits, mangled, top, lowering>>
\* the PassMgr takes the next nominal: queue.top(), queue.pop()
DoTake ==
    /\ Running
    /\ \E L \in QueueTop(Graph, queue) :
          /\ queue' = QueuePop(queue, L)
          /\ last' = [NoOp EXCEPT !.op = "top", !.lam = L]
    /\ UNCHANGED <<graphVars, given, steps, fault, scopeVars, idom, backwards_rpo,
                   backwards_sid, num_exits, mangled, top, lowering>>

\* Scope::backwards_rpo()
DoBackwardsRpo ==
    /\ Running
    /\ entries # <<>>
    /\ LET b == BackwardsRpo(Graph, scope, rpo, backwards_rpo, num_exits)
       IN backwards_rpo' = b.backwards_rpo /\ num_exits' = b.num_exits
    /\ last' = [NoOp EXCEPT !.op = "backwards_rpo"]
    /\ UNCHANGED <<graphVars, given, steps, fault, scopeVars, idom, backwards_sid, mangled,
                   top, lowering, queue>>

\* -------- the SSA construction as a front end drives it
\* a jump passes one argument per client parameter of its target
ClientArgs(to) == IF Len(ClientPi[to]) = 0 THEN <<>> ELSE <<Lit("int", 7)>>

\* The front end terminates a block once, and only towards a block it has not
\* sealed yet: the sealing contract is that every predecessor edge into a
\* lambda is known when seal() is called.
MayJump(L, to) == ops[L] = <<>> /\ ~sealed[to]

\* The front end fixes the parent of a block when it creates it; the blocks
\* it creates inside a function are NonHeads.
NonHeads == {"C"}
Fresh(L) ==
    /\ ops[L] = <<>> /\ ~sealed[L] /\ parent[L] = Lam(L)
    /\ \A h \in Handles : tracked[L][h] = Null

\* the values the front end binds: literals and the parameters SSA made
Values == Literals \cup ssa
\* the value the front end binds when the trivial-phi law is followed
PhiValues == {Lit("int", 7)}

\* ---- the SSA construction alone: jump, set_value, get_value, seal
SsaJump ==
    /\ steps < MaxSsaSteps
    /\ \E L \in created, to \in created :
          MayJump(L, to) /\ DoJump(L, Lam(to), ClientArgs(to))
SsaSetValue ==
    /\ steps < MaxSsaSteps
    /\ \E L \in created, h \in SsaHandles, v \in Values : DoSetValue(L, h, v)
SsaGetValue ==
    /\ steps < MaxSsaSteps
    /\ \E L \in created, h \in SsaHandles, ty \in Types : DoGetValue(L, h, ty)
SsaSeal ==
    /\ steps < MaxSsaSteps
    /\ \E L \in created : DoSeal(L)
SsaSetParent ==
    /\ steps < MaxSsaSteps
    /\ \E L \in NonHeads : \E p \in {Null} \cup {Lam(n) : n \in created \ {L}} :
          Fresh(L) /\ DoSetParent(L, p)

NextSSA == SsaJump \/ SsaSetValue \/ SsaGetValue \/ SsaSeal \/ SsaSetParent
SpecSSA == Init /\ [][NextSSA]_vars

\* ---- the four operations of the trivial-phi law, on function heads only
PhiJump ==
    /\ steps < MaxPhiSteps
    /\ \E L \in created, to \in created :
          MayJump(L, to) /\ DoJump(L, Lam(to), ClientArgs(to))
PhiSetValue ==
    /\ steps < MaxPhiSteps
    /\ \E L \in created, h \in SsaHandles, v \in PhiValues : DoSetValue(L, h, v)
PhiGetValue ==
    /\ steps < MaxPhiSteps
    /\ \E L \in created, h \in SsaHandles, ty \in Types : DoGetValue(L, h, ty)
PhiSeal ==
    /\ steps < MaxPhiSteps
    /\ \E L \in created : DoSeal(L)

NextPhi == PhiJump \/ PhiSetValue \/ PhiGetValue \/ PhiSeal
SpecPhi == Init /\ [][NextPhi]_vars

\* ---- bindings: two lambdas, both handles
BindLambdas == {"A", "B"}
BindJump ==
    /\ steps < MaxBindSteps
    /\ \E L \in BindLambdas, to \in BindLambdas :
          MayJump(L, to) /\ DoJump(L, Lam(to), ClientArgs(to))
BindSetValue ==
    /\ steps < MaxBindSteps
    /\ \E L \in BindLambdas, h \in Handles, v \in Values : DoSetValue(L, h, v)
BindGetValue ==
    /\ steps < MaxBindSteps
    /\ \E L \in BindLambdas, h \in Handles, ty \in Types : DoGetValue(L, h, ty)
BindSeal ==
    /\ steps < MaxBindSteps
    /\ \E L \in BindLambdas : DoSeal(L)

NextBind == BindJump \/ BindSetValue \/ BindGetValue \/ BindSeal
SpecBind == Init /\ [][NextBind]_vars

\* ---- the whole interface: graph mutators and SSA construction
\* conditions of a branch: a literal (the Select folds) and a parameter
Conds == {Lit("bool", 1), Par("A", 0)}
\* arguments a client passes
Args == {Lit("int", 7), Par("A", 0)}

ClientJump ==
    /\ steps < MaxSteps
    /\ \E L \in created, to \in created : DoJump(L, Lam(to), ClientArgs(to))
ClientBranch ==
    /\ steps < MaxSteps
    /\ \E L \in created, c \in Conds, tto \in created, fto \in created :
          DoBranch(L, c, Lam(tto), Lam(fto))
ClientCall ==
    /\ steps < MaxSteps
    /\ \E L \in created, to \in created, arg \in Args : DoCall(L, Lam(to), <<arg>>, "int")
ClientUpdateOp ==
    /\ steps < MaxSteps
    /\ \E L \in created : \E i \in 0..(Len(ops[L]) - 1) : \E def \in Args :
          DoUpdateOp(L, i, def)
ClientAppendArg ==
    /\ steps < MaxSteps
    /\ \E L \in created, arg \in Args : DoAppendArg(L, arg)
ClientSetValue ==
    /\ steps < MaxSteps
    /\ \E L \in created, h \in SsaHandles, v \in PhiValues : DoSetValue(L, h, v)
ClientGetValue ==
    /\ steps < MaxSteps
    /\ \E L \in created, h \in SsaHandles, ty \in Types : DoGetValue(L, h, ty)
ClientSeal ==
    /\ steps < MaxSteps
    /\ \E L \in created : DoSeal(L)

Next ==
    \/ ClientJump \/ ClientBranch \/ ClientCall \/ ClientUpdateOp \/ ClientAppendArg
    \/ ClientSetValue \/ ClientGetValue \/ ClientSeal
Spec == Init /\ [][Next]_vars

\* ---- scopes over a graph of jumps and branches
\* the entry lists a Scope is built from
EntryLists == {<<"A">>, <<"A", "B">>, <<"B", "A">>}
\* the graph is built before the first Scope looks at it
ScopeJump ==
    /\ steps < MaxScopeSteps
    /\ scopes = 0
    /\ \E L \in created, to \in created, args \in {<<>>, <<Par("A", 0)>>} :
          ops[L] = <<>> /\ DoJump(L, Lam(to), args)
ScopeBranch ==
    /\ steps < MaxScopeSteps
    /\ scopes = 0
    /\ \E L \in created, tto \in created : \E fto \in created \ {tto} :
          ops[L] = <<>> /\ DoBranch(L, Par("A", 0), Lam(tto), Lam(fto))
ScopeCreate ==
    /\ scopes < MaxScopes
    /\ \E es \in EntryLists : DoScope(es)
ScopeEnd == DoScopeEnd

NextScope == ScopeJump \/ ScopeBranch \/ ScopeCreate \/ ScopeEnd
SpecScope == Init /\ [][NextScope]_vars


\* ---- scopes with their dominator tree and backwards numbering
\* the entry lists a Scope with a DomTree is built from
DomEntryLists == {<<"A">>, <<"A", "B">>}
\* every jump passes the entry's parameter on
DomArgs == {<<Par("A", 0)>>}
\* the front end terminates the lambdas in the order it created them
NextToTerminate(L) ==
    /\ ops[L] = <<>>
    /\ \A k \in 1..Len(BaseLambdas) :
          k < IndexOf(BaseLambdas, L, 1) => ops[BaseLambdas[k]] # <<>>
DomJump ==
    /\ steps < MaxDomSteps
    /\ scopes = 0
    /\ \E L \in created, to \in created, args \in DomArgs :
          NextToTerminate(L) /\ DoJump(L, Lam(to), args)
DomBranch ==
    /\ steps < MaxDomSteps
    /\ scopes = 0
    /\ \E L \in created, tto \in created : \E fto \in created \ {tto} :
          NextToTerminate(L) /\ DoBranch(L, Par("A", 0), Lam(tto), Lam(fto))
\* a lambda is passed on as an additional argument of a jump, once
DomAppendArg ==
    /\ steps < MaxDomSteps
    /\ scopes = 0
    /\ \A M \in created : Len(ops[M]) <= 2
    /\ \E L \in created, x \in created :
          Len(ops[L]) = 2 /\ DoAppendArg(L, Lam(x))
DomScope ==
    /\ scopes < MaxScopes
    /\ \E es \in DomEntryLists : DoScope(es)
DomCreate == DoDomTree
DomBackwards == DoBackwardsRpo

NextDom == DomJump \/ DomBranch \/ DomAppendArg \/ DomScope \/ DomCreate \/ DomBackwards
SpecDom == Init /\ [][NextDom]_vars

\* ---- a single-entry scope is mangled
\* the entry A takes an int and a bool
MangleCond == Par("A", 1)
\* a primop over the entry's parameters
MangleSelectOps == <<Par("A", 1), Par("A", 0), Lit("int", 7)>>
\* the arguments of a jump: a call of A passes both of its parameters
MangleArgs(to) ==
    IF to = "A"
    THEN {<<Par("A", 0), Par("A", 1)>>, <<Par("A", 0), Lit("bool", 0)>>}
    ELSE {<<Par("A", 0)>>, <<Lam("A")>>}
\* what the Mangler is asked to drop and to lift
MangleInputs == {<<<<>>, <<>>, <<>>>>,
                 <<<<0>>, <<Lit("int", 8)>>, <<>>>>,
                 <<<<1>>, <<Lit("bool", 0)>>, <<>>>>,
                 <<<<1>>, <<Lit("bool", 1)>>, <<>>>>,
                 <<<<0, 1>>, <<Lit("int", 8), Lit("bool", 0)>>, <<>>>>,
                 <<<<>>, <<>>, <<Lit("bool", 1)>>>>,
                 <<<<0>>, <<Lit("int", 8)>>, <<Lit("bool", 1)>>>>}

MangleParam ==
    /\ Running
    /\ steps = 0
    /\ Commit(AppendParam(Graph, "A", "bool").g, "append_param", "A", 0, Par("A", 1))
    /\ UNCHANGED given
MangleJump ==
    /\ steps \in 1..(MaxMangleSteps - 1)
    /\ scopes = 0
    /\ \E L \in created, to \in created :
          \E args \in MangleArgs(to) : NextToTerminate(L) /\ DoJump(L, Lam(to), args)
\* L.jump(to, [world.select(c, x, 7)])
MangleJumpSelect ==
    /\ steps \in 1..(MaxMangleSteps - 1)
    /\ scopes = 0
    /\ \E L \in created, to \in created \ {"A"} :
          /\ NextToTerminate(L)
          /\ Running
          /\ LET r == WorldSelect(Graph, MangleSelectOps[1], MangleSelectOps[2],
                                  MangleSelectOps[3])
             IN Commit(Jump(r.g, L, Lam(to), <<r.val>>), "jump", L, 0, Null)
          /\ UNCHANGED given
MangleBranch ==
    /\ steps \in 1..(MaxMangleSteps - 1)
    /\ scopes = 0
    /\ \E L \in created, tto \in created, fto \in created :
          /\ IndexOf(LambdaOrder, tto, 1) < IndexOf(LambdaOrder, fto, 1)
          /\ NextToTerminate(L)
          /\ DoBranch(L, MangleCond, Lam(tto), Lam(fto))
\* the Scope of A, once every lambda has its body
MangleScope ==
    /\ scopes = 0
    /\ \A L \in created : ops[L] # <<>>
    /\ DoScope(<<"A">>)
MangleRun ==
    \E i \in MangleInputs, tfirst \in BOOLEAN : DoMangle(i[1], i[2], i[3], tfirst)

NextMangle ==
    MangleParam \/ MangleJump \/ MangleJumpSelect \/ MangleBranch \/ MangleScope \/ MangleRun
SpecMangle == Init /\ [][NextMangle]_vars

\* ---- a world with a higher-order function is lowered
\* A is the external lambda; B takes a function and at most one parameter more
CffTypes(n) == IF n = 0 THEN {"fn"} ELSE {"fn", "int"}
\* the values of a type that a call passes
CffValues(ty) ==
    IF Order(ty) > 0
    THEN {Lam("A"), Lam("C")} \cup {Par("B", 0) : i \in HigherOrder(Graph, "B") \cap {1}}
    ELSE {Lit("int", 7), Par("A", 0)}
\* the argument lists that fit the parameter types
CffArgs(tys) ==
    IF Len(tys) = 0 THEN {<<>>}
    ELSE IF Len(tys) = 1 THEN {<<a>> : a \in CffValues(tys[1])}
    ELSE {<<a, b>> : a \in CffValues(tys[1]), b \in CffValues(tys[2])}
\* what a lambda may call: a lambda, or the function B was given
CffCallees ==
    {Lam(L) : L \in created} \cup {Par("B", 0) : i \in HigherOrder(Graph, "B") \cap {1}}
CffParamTypes(to) == IF IsLam(to) THEN params[to[2]] ELSE <<"int">>
\* A is the outermost lambda: it is in no scope and uses no parameter of another
WellScoped(L, ds) == L = "A" => \A k \in 1..Len(ds) : ds[k] # Par("B", 0)

CffParam ==
    /\ Running
    /\ steps < 2
    /\ steps = Len(params["B"])
    /\ \A L \in created : ops[L] = <<>>
    /\ \E ty \in CffTypes(steps) :
          Commit(AppendParam(Graph, "B", ty).g, "append_param", "B", 0, Par("B", steps))
    /\ UNCHANGED given
CffJump ==
    /\ steps < MaxCffSteps
    /\ last.op # "lower2cff"
    /\ \E L \in created, to \in CffCallees :
          \E args \in CffArgs(CffParamTypes(to)) :
             /\ NextToTerminate(L)
             /\ WellScoped(L, <<to>> \o args)
             /\ DoJump(L, to, args)
CffLower == DoLower2cff({"A"})

NextCff == CffParam \/ CffJump \/ CffLower
SpecCff == Init /\ [][NextCff]_vars

\* ---- nominals of several type orders go through the PassMgr's queue
\* the lambdas get their parameters before any of them is enqueued
PassParam ==
    /\ Running
    /\ steps < MaxPassSteps
    /\ queue = NewQueue
    /\ last.op \in {"none", "append_param"}
    /\ \E L \in created, ty \in {"int", "fn"} :
          Commit(AppendParam(Graph, L, ty).g, "append_param", L, 0, Par(L, Len(params[L])))
    /\ UNCHANGED given
PassEnqueue == \E L \in created : DoEnqueue(L)
PassTake == DoTake

NextPass == PassParam \/ PassEnqueue \/ PassTake
SpecPass == Init /\ [][NextPass]_vars

\* ================================================================= claims
\* the parameter an entry of the removal log is about, and the values other
\* than that parameter which the predecessors passed at its slot
EntryParam(e) == Par(e.lam, e.index)
NonSelf(e) == e.vals \ {EntryParam(e)}

\* C3: try_remove_trivial_param(p) returns p itself, replacing nothing,
\* exactly when the predecessors' arguments at p's slot contain at least two
\* distinct values other than p; when they contain exactly one such value v
\* it returns v and p is replaced by v, and the get_value that asked for the
\* parameter yields v.
C3_TrivialParamResult ==
    /\ \A k \in 1..Len(last.removes) :
          LET e == last.removes[k]
          IN /\ (e.ret = EntryParam(e)) <=> (Cardinality(NonSelf(e)) >= 2)
             /\ Cardinality(NonSelf(e)) = 1 =>
                   /\ NonSelf(e) = {e.ret}
                   /\ <<EntryParam(e), e.ret>> \in gone
                   /\ \A u \in uses : u[1] # EntryParam(e)
    /\ last.op = "get_value" =>
          \A k \in 1..Len(last.removes) :
             LET e == last.removes[k]
             IN e.depth = 2 /\ e.ret # EntryParam(e) => last.ret = e.ret

\* a loop header whose entry edge carries literal 7 and whose back edge carries
\* the parameter itself: the parameter is removed and get_value returns 7
C3_Witness ==
    /\ last.op = "get_value" /\ last.ret = Lit("int", 7)
    /\ \E k \in 1..Len(last.removes) :
          LET e == last.removes[k]
          IN /\ e.depth = 2 /\ e.ret = Lit("int", 7)
             /\ e.vals = {Lit("int", 7), EntryParam(e)}
             /\ Len(Preds(Graph, e.lam)) = 2

\* what P.get_value(h, ty) returns in the current graph
ValueAt(P, h, ty) == Start(Graph, Frame("get_value", P, h, ty, 0)).ret

\* the last operation was a get_value whose outermost call ran on the sealed
\* head L, found two or more predecessors and saw their values differ
DivergedAt(L) ==
    /\ last.op = "get_value"
    /\ <<L, last.handle, 1>> \in last.diverged

\* get_value returned a parameter of L of type ty, and every predecessor
\* passes at that parameter's slot what its own get_value yields
ReturnsPhi(L, ty) ==
    /\ IsPar(last.ret) /\ last.ret[2] = L
    /\ last.ret[3] < Len(pi[L]) /\ pi[L][last.ret[3] + 1] = ty
    /\ \A k \in 1..Len(Preds(Graph, L)) :
          LET P == Preds(Graph, L)[k]
          IN /\ last.ret[3] < NumArgs(Graph, P)
             /\ Arg(Graph, P, last.ret[3]) = ValueAt(P, last.handle, ty)

KeptPhi(L) ==
    \E k \in 1..Len(last.removes) :
       LET e == last.removes[k]
       IN e.depth = 2 /\ e.lam = L /\ Cardinality(NonSelf(e)) >= 2

Removed == {last.removes[k] : k \in {j \in 1..Len(last.removes) :
                                        last.removes[j].ret # EntryParam(last.removes[j])}}

\* C4 as stated: once a trivial parameter is removed it is gone from L and
\* no predecessor of L carries an argument in its slot any more.
C4_Original ==
    \A e \in Removed :
       /\ Len(params[e.lam]) <= e.index
       /\ \A k \in 1..Len(Preds(Graph, e.lam)) :
             NumArgs(Graph, Preds(Graph, e.lam)[k]) <= e.index

\* C4 (amended): once a trivial parameter p (index i) of L is removed, p is
\* used nowhere, but L still lists it and every direct predecessor of L
\* still carries an argument in slot i: bottom of p's type.
C4_RemovedParamIsDead ==
    \A e \in Removed :
       /\ e.index < Len(params[e.lam])
       /\ \A u \in uses : u[1] # EntryParam(e)
       /\ \A k \in 1..Len(DirectPreds(Graph, e.lam)) :
             LET P == DirectPreds(Graph, e.lam)[k]
             IN /\ e.index < NumArgs(Graph, P)
                /\ Arg(Graph, P, e.index) = Bot(params[e.lam][e.index + 1])

C4_Witness ==
    \E e \in Removed :
       /\ e.ret = Lit("int", 7)
       /\ Len(DirectPreds(Graph, e.lam)) = 2
       /\ \A k \in 1..2 : Arg(Graph, DirectPreds(Graph, e.lam)[k], e.index) = Bot("int")

\* the parameters try_remove_trivial_param has replaced so far
Replaced == {r[1] : r \in gone}

\* the values other than p that the predecessors of p's lambda pass at p's slot
IncomingValues(p) ==
    LET preds == Preds(Graph, p[2])
    IN {Arg(Graph, preds[k], p[3]) :
           k \in {j \in 1..Len(preds) : p[3] < NumArgs(Graph, preds[j])}} \ {p}

\* C5: every parameter the SSA constructor appended to a sealed lambda, and
\* did not remove again, receives at least two distinct values other than
\* itself from the lambda's predecessors.
C5_TrivialPhiLaw ==
    \A p \in ssa \ Replaced : sealed[p[2]] => Cardinality(IncomingValues(p)) >= 2

\* the step is the client's call of `op` on lambda L
OpStep(op, L) == steps' = steps + 1 /\ last'.op = op /\ last'.lam = L

\* the Todos that seal itself handed to fix, in the order of the calls
SealedTodos(log) ==
    LET direct == SelectSeq(log, LAMBDA e : e.depth = 2)
    IN [k \in 1..Len(direct) |-> direct[k].todo]

\* C6: seal() on a sealed lambda aborts on its assertion and changes nothing;
\* on an unsealed lambda it returns having set is_sealed, fixed the pending
\* Todos in the order get_value recorded them and emptied the Todo list; a
\* sealed lambda never has a pending Todo.
C6_SealStep(L) ==
    OpStep("seal", L) =>
       IF sealed[L]
       THEN fault' = "assert: already sealed" /\ UNCHANGED graphVars
       ELSE /\ fault' = "none"
            /\ sealed'[L]
            /\ todos'[L] = <<>>
            /\ SealedTodos(last'.fixes) = todos[L]
            /\ \A k \in 1..Len(last'.fixes) :
                  last'.fixes[k].depth = 2 => last'.fixes[k].lam = L
C6_SealOneShot ==
    [][/\ \A L \in LambdaIds : C6_SealStep(L)
       /\ \A L \in LambdaIds : sealed'[L] => todos'[L] = <<>>]_vars

\* C7: get_value on an unsealed head L with no binding for the handle
\* appends exactly one parameter p of the asked type (index = the previous
\* parameter count, the function type grows by that type), records exactly
\* one Todo (h, p.index, type), binds h to p and returns p; no operand of any
\* lambda changes.
C7_GetStep(L, h) ==
    /\ OpStep("get_value", L) /\ last'.handle = h
    /\ ~sealed[L] /\ parent[L] = Lam(L) /\ tracked[L][h] = Null
    => LET p == Par(L, Len(params[L]))
       IN /\ fault' = "none"
          /\ last'.ret = p
          /\ params' = [params EXCEPT ![L] = Append(@, "int")]
          /\ pi' = [pi EXCEPT ![L] = Append(@, "int")]
          /\ todos' = [todos EXCEPT ![L] = Append(@, Todo(h, p[3], "int"))]
          /\ tracked' = [tracked EXCEPT ![L][h] = p]
          /\ ops' = ops /\ uses' = uses /\ sealed' = sealed
C7_UnsealedGetValue ==
    [][\A L \in LambdaIds, h \in Handles : C7_GetStep(L, h)]_vars

\* an unsealed head that already has a predecessor got a new parameter, and
\* the predecessor still passes only the client's argument
C7_Witness ==
    /\ last.op = "get_value" /\ fault = "none" /\ ~sealed[last.lam]
    /\ last.ret = Par(last.lam, Len(params[last.lam]) - 1)
    /\ last.ret \in ssa
    /\ todos[last.lam] = <<Todo(last.handle, last.ret[3], "int")>>
    /\ Preds(Graph, last.lam) # <<>>
    /\ \A k \in 1..Len(Preds(Graph, last.lam)) :
          NumArgs(Graph, Preds(Graph, last.lam)[k]) = Len(ClientPi[last.lam])

\* C9: get_value on a sealed head without predecessors and without a binding,
\* or on a non-head whose parent is null, does not abort: it returns
\* bottom of the asked type, binds the handle to it, so that the next
\* get_value returns the same bottom, and appends no parameter.
Undefined(L, h) ==
    /\ tracked[L][h] = Null
    /\ \/ parent[L] = Lam(L) /\ sealed[L] /\ Preds(Graph, L) = <<>>
       \/ parent[L] = Null
C9_GetStep(L, h) ==
    OpStep("get_value", L) /\ last'.handle = h /\ Undefined(L, h)
    => /\ fault' = "none"
       /\ last'.ret = Bot("int")
       /\ tracked' = [tracked EXCEPT ![L][h] = Bot("int")]
       /\ params' = params /\ pi' = pi /\ todos' = todos
       /\ ValueAt(L, h, "int")' = Bot("int")
C9_UndefinedIsBottom ==
    [][\A L \in LambdaIds, h \in Handles : C9_GetStep(L, h)]_vars

\* a block whose parent is null was asked for a value and answered bottom
C9_Witness ==
    /\ last.op = "get_value" /\ fault = "none" /\ last.ret = Bot("int")
    /\ parent[last.lam] = Null
    /\ tracked[last.lam][last.handle] = Bot("int")

\* the defs a def may have turned into: itself and, when it is a parameter
\* that try_remove_trivial_param replaced, what replaced it (and so on)
RECURSIVE Reach(_, _)
Reach(vs, n) ==
    IF n = 0 THEN vs
    ELSE Reach(vs \cup {r[2] : r \in {q \in gone : q[1] \in vs}}, n - 1)
Became(v) == Reach({v}, Cardinality(gone))

\* set_value(h, v) on L binds h to v on L and touches nothing else
C8_SetStep(L, h) ==
    OpStep("set_value", L) /\ last'.handle = h
    => /\ fault' = "none"
       /\ tracked' = [tracked EXCEPT ![L][h] = given'[L][h]]
       /\ UNCHANGED <<ops, uses, params, pi, sealed, parent, todos>>

\* C8 as stated: after L.set_value(h, v) every L.get_value(h) returns v
\* until the next set_value(h, .) on L and changes nothing in the graph;
\* set_value leaves the bindings of the other handles alone.
C8_OriginalGetStep(L, h) ==
    OpStep("get_value", L) /\ last'.handle = h /\ given[L][h] # Null
    => /\ fault' = "none"
       /\ last'.ret = given[L][h]
       /\ UNCHANGED graphVars
C8_Original ==
    [][\A L \in LambdaIds, h \in Handles :
          C8_OriginalGetStep(L, h) /\ C8_SetStep(L, h)]_vars

\* C8 (amended): after L.set_value(h, v) every L.get_value(h) returns v, or
\* what v has been replaced by if v is a parameter that was removed as
\* trivial in the meantime, until the next set_value(h, .) on L; such a
\* get_value changes nothing in the graph, and set_value leaves the bindings
\* of the other handles alone.
C8_GetStep(L, h) ==
    OpStep("get_value", L) /\ last'.handle = h /\ given[L][h] # Null
    => /\ fault' = "none"
       /\ last'.ret \in Became(given[L][h])
       /\ given[L][h] \notin Replaced => last'.ret = given[L][h]
       /\ UNCHANGED graphVars
C8_RoundTrip ==
    [][\A L \in LambdaIds, h \in Handles : C8_GetStep(L, h) /\ C8_SetStep(L, h)]_vars

\* a get_value answered a binding the client had set, while the lambda's
\* other handle holds a different binding and the lambda is sealed
C8_Witness ==
    /\ last.op = "get_value" /\ fault = "none"
    /\ given[last.lam][last.handle] = Lit("int", 8)
    /\ last.ret = Lit("int", 8)
    /\ given[last.lam][1 - last.handle] = Lit("int", 7)
    /\ tracked[last.lam][1 - last.handle] = Lit("int", 7)
    /\ sealed[last.lam]

\* C1: use-def symmetry.  Every non-null operand o at index i of a def d is
\* recorded as the use (d, i) of o, and every recorded use (d, i) of o is
\* matched by d.ops[i] = o.
Nodes == {Lam(n) : n \in created} \cup {Sel(k) : k \in 1..Len(sels)}
C1_UseDefSymmetry ==
    /\ \A d \in Nodes : \A i \in 0..(Len(OpsOf(Graph, d)) - 1) :
          LET o == OpsOf(Graph, d)[i + 1]
          IN o # Null => <<o, d, i>> \in uses
    /\ \A u \in uses :
          /\ u[2] \in Nodes
          /\ u[3] < Len(OpsOf(Graph, u[2]))
          /\ OpsOf(Graph, u[2])[u[3] + 1] = u[1]

\* the members reachable from the entries through in-scope successor edges
RECURSIVE ReachFrom(_, _, _)
ReachFrom(R, members, n) ==
    IF n = 0 THEN R
    ELSE ReachFrom(R \cup {s \in members : \E r \in R :
                                 \E k \in 1..Len(Succs(Graph, r)) : Succs(Graph, r)[k] = s},
                   members, n - 1)
Reachable == ReachFrom({entries[k] : k \in 1..Len(entries)}, last.members,
                       Cardinality(LambdaIds))

\* C10: once a Scope is constructed, rpo() holds exactly the members
\* reachable from the entries through in-scope successor edges, rpo()[i] has
\* sid i, the entries hold the lowest sids in the order they were presented,
\* and the members that are not reachable have no sid and are not in rpo().
C10_ScopeNumbering ==
    last.op = "scope" /\ fault = "none" =>
       /\ {rpo[i] : i \in 1..Len(rpo)} = Reachable
       /\ \A i \in 1..Len(rpo) : sid[rpo[i]] = i - 1
       /\ \A k \in 1..Len(entries) : sid[entries[k]] = k - 1
       /\ \A L \in last.members \ Reachable :
             sid[L] = -1 /\ \A i \in 1..Len(rpo) : rpo[i] # L

\* a Scope built from the entries B, A in that order, with a third member
\* that is not reachable from them
C10_Witness ==
    /\ last.op = "scope" /\ fault = "none"
    /\ entries = <<"B", "A">>
    /\ rpo = <<"B", "A">>
    /\ last.members \ Reachable = {"C"}

\* C12: once the Scope is destroyed, every lambda has sid = size_t(-1) again
\* and none points to the Scope any more.
C12_ScopeReleased ==
    last.op = "~scope" => \A L \in LambdaIds : sid[L] = -1 /\ ~scope[L]

\* C11: in a constructed Scope every non-entry lambda of rpo() has an in-scope
\* predecessor with a smaller sid, and DomTree::create never reaches its
\* UNREACHABLE branch.
C11_LowerPredecessor ==
    /\ entries # <<>> /\ fault = "none" =>
          \A k \in (Len(entries) + 1)..Len(rpo) :
             \E j \in 1..Len(ScopePreds(Graph, scope, rpo[k])) :
                sid[ScopePreds(Graph, scope, rpo[k])[j]] < sid[rpo[k]]
    /\ fault # "unreachable: DomTree::create"

\* the lambdas of rpo() that in-scope successor edges reach from the entry
\* without passing through d
RECURSIVE ReachAvoiding(_, _, _)
ReachAvoiding(R, d, n) ==
    IF n = 0 THEN R
    ELSE ReachAvoiding(R \cup {s \in {rpo[k] : k \in 1..Len(rpo)} \ {d} :
                                  \E r \in R : \E k \in 1..Len(ScopeSuccs(Graph, scope, r)) :
                                     ScopeSuccs(Graph, scope, r)[k] = s},
                       d, n - 1)
\* every path from the entry to L passes through d
Dominates(d, L) ==
    \/ d = L
    \/ d = entries[1]
    \/ L \notin ReachAvoiding({entries[1]}, d, Len(LambdaOrder))
StrictDominators(L) == {d \in {rpo[k] : k \in 1..Len(rpo)} \ {L} : Dominates(d, L)}

\* the forward DomTree of a single-entry Scope has been built
DomTreeBuilt == Len(entries) = 1 /\ fault = "none" /\ idom[entries[1]] # ""

\* C14: in the forward DomTree of a single-entry Scope, idom(entry) = entry
\* and for every other lambda L of rpo() idom(L) lies on every path from the
\* entry to L and is the closest such lambda: every other strict dominator
\* of L dominates idom(L).
C14_IdomIsImmediateDominator ==
    DomTreeBuilt =>
       /\ idom[entries[1]] = entries[1]
       /\ \A k \in 2..Len(rpo) :
             /\ idom[rpo[k]] \in StrictDominators(rpo[k])
             /\ \A d \in StrictDominators(rpo[k]) : Dominates(d, idom[rpo[k]])

\* C19: DomTree construction ends, lca included, also for a Scope with more
\* than one entry, and leaves every non-entry lambda with an idom of a
\* smaller index.
C19_DomTreeTerminates ==
    /\ fault \notin {"diverges: DomTree::lca", "diverges: DomTree::create"}
    /\ entries # <<>> /\ fault = "none" /\ idom[entries[1]] # "" =>
          \A k \in (Len(entries) + 1)..Len(rpo) : sid[idom[rpo[k]]] < sid[rpo[k]]

\* C13: after Scope::backwards_rpo() the returned array lists every member
\* lambda of the scope exactly once, every member's backwards_sid is its
\* position in that array, and exits() is exactly the set of members that
\* have no successor inside the scope.
C13_BackwardsRpo ==
    last.op = "backwards_rpo" =>
        /\ Len(backwards_rpo) = Len(rpo)
        /\ \A L \in LambdaIds :
              scope[L] =>
                 /\ Cardinality({k \in 1..Len(backwards_rpo) : backwards_rpo[k] = L}) = 1
                 /\ backwards_sid[L] >= 0
                 /\ backwards_sid[L] < Len(backwards_rpo)
                 /\ backwards_rpo[backwards_sid[L] + 1] = L
        /\ {Exits(backwards_rpo, num_exits)[k] : k \in 1..num_exits}
              = {L \in LambdaIds : scope[L] /\ ScopeSuccs(Graph, scope, L) = <<>>}

\* ---- mangling
\* a Mangler has run on the scope of mangled.oentry
Mangled == mangled.nentry # ""
\* is the parameter index i of the old entry dropped, and where
Dropped(i) == \E k \in 1..Len(mangled.to_drop) : mangled.to_drop[k] = i
DropIndex(i) == CHOOSE k \in 1..Len(mangled.to_drop) : mangled.to_drop[k] = i
\* the position a retained parameter takes after compaction
Compacted(i) == Cardinality({j \in 0..(i - 1) : ~Dropped(j)})
\* the new def the Mangler's map holds for an old one
MappedTo(d, n) == <<d, n>> \in mangled.cptr

\* C15: mangling a single-entry scope with strictly increasing drop indices D,
\* values W and lifted defs F yields a new entry with old - |D| + |F|
\* parameters: the old entry's parameter types without those at D, in the
\* original order, followed by the types of F; each dropped old parameter is
\* mapped to its value in W, each retained one to the new parameter at its
\* compacted position, each lifted def to its appended parameter.
C15_MangledParameters ==
    Mangled =>
        LET o == mangled.oentry
            n == mangled.nentry
            old == Len(params[o])
            kept == old - Len(mangled.to_drop)
        IN /\ Len(params[n]) = kept + Len(mangled.to_lift)
           /\ pi[n] = params[n]
           /\ \A i \in 0..(old - 1) :
                 IF Dropped(i)
                 THEN MappedTo(Par(o, i), mangled.drop_with[DropIndex(i)])
                 ELSE /\ params[n][Compacted(i) + 1] = params[o][i + 1]
                      /\ MappedTo(Par(o, i), Par(n, Compacted(i)))
           /\ \A x \in 1..Len(mangled.to_lift) :
                 /\ params[n][kept + x] = TypeOf(Graph, mangled.to_lift[x])
                 /\ MappedTo(mangled.to_lift[x], Par(n, kept + x - 1))

\* a parameter is dropped in front of a retained one, and a def is lifted
C15_Witness ==
    /\ Mangled
    /\ mangled.to_drop = <<0>>
    /\ mangled.to_lift # <<>>
    /\ Len(params[mangled.nentry]) = 2

\* the arguments at the indices that are not dropped
WithoutDropped(args) ==
    LET idx == [k \in 1..Len(args) |-> k]
        keep == SelectSeq(idx, LAMBDA k : ~Dropped(k - 1))
    IN [k \in 1..Len(keep) |-> args[keep[k]]]
\* every argument at a dropped index is the value dropped there
DroppedArgsMatch(args) ==
    \A i \in 1..Len(mangled.to_drop) :
        args[mangled.to_drop[i] + 1] = mangled.drop_with[i]
\* the mangle_body calls whose rewritten callee is the old entry
SelfCalls ==
    {k \in 1..Len(mangled.bodies) : mangled.bodies[k].ntarget = Lam(mangled.oentry)}

\* C20: for a lambda of the scope whose rewritten callee is the old entry, the
\* copy jumps to the new entry with the arguments minus those at the dropped
\* indices exactly when every argument at a dropped index equals the
\* corresponding drop value; if one differs, the copy jumps to the old entry
\* with all rewritten arguments.
C20_TailSelfCall ==
    Mangled =>
        \A k \in SelfCalls :
            LET b == mangled.bodies[k]
                old == ops[b.olambda]
            IN /\ b.nargs = [j \in 1..(Len(old) - 1) |-> Lookup(mangled, old[j + 1])]
               /\ IF DroppedArgsMatch(b.nargs)
                  THEN ops[b.nlambda] = <<Lam(mangled.nentry)>> \o WithoutDropped(b.nargs)
                  ELSE ops[b.nlambda] = <<Lam(mangled.oentry)>> \o b.nargs

\* a copy's self call is rewritten with a parameter dropped
C20_Witness ==
    /\ Mangled
    /\ mangled.to_drop # <<>>
    /\ \E k \in SelfCalls :
          /\ DroppedArgsMatch(mangled.bodies[k].nargs)
          /\ mangled.bodies[k].olambda # mangled.oentry
          /\ ops[mangled.bodies[k].nlambda][1] = Lam(mangled.nentry)

\* the lambdas of the mangled scope
Members == {mangled.members[k] : k \in 1..Len(mangled.members)}
\* the copy of a lambda of the scope ("" when it has none)
CopyOf(L) ==
    IF L = mangled.oentry THEN mangled.nentry
    ELSE IF Visited(mangled, Lam(L)) THEN Lookup(mangled, Lam(L))[2]
    ELSE ""
\* the interned Select with the given operands (Null when there is none)
SelectOf(c, t, f) ==
    IF \E k \in 1..Len(sels) : sels[k] = <<c, t, f>>
    THEN Sel(CHOOSE k \in 1..Len(sels) : sels[k] = <<c, t, f>>)
    ELSE Null
\* a def with the lambdas of the scope and their parameters renamed to the copies
RECURSIVE Renamed(_)
Renamed(d) ==
    IF IsLam(d) /\ d[2] \in Members THEN Lam(CopyOf(d[2]))
    ELSE IF IsPar(d) /\ d[2] \in Members THEN Par(CopyOf(d[2]), d[3])
    ELSE IF IsSel(d)
    THEN SelectOf(Renamed(sels[d[3]][1]), Renamed(sels[d[3]][2]), Renamed(sels[d[3]][3]))
    ELSE d

\* C16: clone() of a single-entry scope S returns a new entry whose subgraph
\* is S up to renaming of the copied lambdas and their parameters: every
\* lambda of S has a copy with the same parameter types, and the copy's
\* operands are the original's with every lambda of S (the entry included,
\* as callee, as target of a select or as argument) and every parameter of S
\* replaced by its copy, defs outside S shared; no lambda or parameter of S
\* is referenced from a copy.
C16_CloneIsomorphic ==
    (Mangled /\ mangled.to_drop = <<>> /\ mangled.to_lift = <<>>) =>
        \A L \in Members :
            /\ CopyOf(L) # ""
            /\ params[CopyOf(L)] = params[L]
            /\ ops[CopyOf(L)] = [k \in 1..Len(ops[L]) |-> Renamed(ops[L][k])]

\* the def that substitution puts in the place of an old one: a dropped
\* parameter of the entry becomes its value, a retained one the new entry's
\* parameter at the compacted position, a copied lambda and its parameters
\* their copies, a Select the Select of its substituted operands (folded when
\* its condition became a literal); every other def stays
RECURSIVE Substituted(_)
Substituted(d) ==
    IF IsPar(d) /\ d[2] = mangled.oentry
    THEN IF Dropped(d[3]) THEN mangled.drop_with[DropIndex(d[3])]
         ELSE Par(mangled.nentry, Compacted(d[3]))
    ELSE IF IsPar(d) /\ d[2] \in Members THEN Par(CopyOf(d[2]), d[3])
    ELSE IF IsLam(d) /\ d[2] \in Members \ {mangled.oentry} THEN Lam(CopyOf(d[2]))
    ELSE IF IsSel(d)
    THEN LET c == Substituted(sels[d[3]][1])
         IN IF IsBoolLit(c)
            THEN Substituted(sels[d[3]][IF c[3] = 1 THEN 2 ELSE 3])
            ELSE SelectOf(c, Substituted(sels[d[3]][2]), Substituted(sels[d[3]][3]))
    ELSE d
\* the body substitution gives the copy of L: a call of the old entry that
\* passes the dropped values becomes a call of the new entry without them
SubstitutedBody(L) ==
    LET to == Substituted(ops[L][1])
        args == [k \in 1..(Len(ops[L]) - 1) |-> Substituted(ops[L][k + 1])]
    IN IF to = Lam(mangled.oentry) /\ DroppedArgsMatch(args)
       THEN <<Lam(mangled.nentry)>> \o WithoutDropped(args)
       ELSE <<to>> \o args
\* the copies reachable from the new entry
RECURSIVE CopiesFrom(_, _)
CopiesFrom(R, n) ==
    IF n = 0 THEN R
    ELSE CopiesFrom(R \cup {M \in LambdaIds :
                               \E L \in R : \E k \in 1..Len(Succs(Graph, L)) :
                                   Succs(Graph, L)[k] = M}, n - 1)
ReachableCopies ==
    {L \in Members : CopyOf(L) \in CopiesFrom({mangled.nentry}, Len(LambdaOrder))}
\* d is, or is a Select over, a dropped parameter of the old entry
RECURSIVE UsesDropped(_)
UsesDropped(d) ==
    \/ IsPar(d) /\ d[2] = mangled.oentry /\ Dropped(d[3])
    \/ IsSel(d) /\ \E k \in 1..3 : UsesDropped(sels[d[3]][k])

\* C17: drop(indices, values) equals substitution: the body of every copy
\* reachable from the new entry is the original's body with each dropped
\* entry parameter replaced by its value, primops over a replaced operand
\* rebuilt through the hash-consing factory and the others reused; no dropped
\* parameter of the old entry is an operand, directly or through primops, of
\* a copied lambda.
C17_DropIsSubstitution ==
    (Mangled /\ mangled.to_drop # <<>> /\ mangled.to_lift = <<>>) =>
        \A L \in ReachableCopies :
            /\ ops[CopyOf(L)] = SubstitutedBody(L)
            /\ \A k \in 1..Len(ops[CopyOf(L)]) : ~UsesDropped(ops[CopyOf(L)][k])

\* a call that is_bad would report once lower2cff has returned, in the local
\* sense (the callee lies inside the caller's scope and takes a function) or
\* in the global sense (the callee is a visited top-level lambda that is not
\* returning and not around the caller, or an unvisited one that takes a
\* function)
BadLocally(e, L) ==
    LET to == ops[L][1]
    IN /\ IsLam(to) /\ ops[to[2]] # <<>>
       /\ ScopeOf(Graph, e).scope[to[2]] /\ to[2] # e /\ ~IsBasicblock(Graph, to[2])
BadGlobally(e, L) ==
    LET to == ops[L][1]
    IN /\ IsLam(to) /\ ops[to[2]] # <<>>
       /\ IF to[2] \in top
          THEN ~IsReturning(Graph, to[2]) /\ ~ScopeOf(Graph, e).scope[to[2]]
          ELSE ~IsBasicblock(Graph, to[2])
BadCalls ==
    {<<e, L>> \in {TopLevel(Graph)[k] : k \in 1..Len(TopLevel(Graph))} \X created :
        /\ ScopeOf(Graph, e).scope[L] /\ ops[L] # <<>>
        /\ BadLocally(e, L) \/ BadGlobally(e, L)}

\* C18: lower2cff returns on every finite world, and when it has returned no
\* call is left whose callee is a lambda that is neither a basic block nor
\* returning: no call is bad in the local or in the global sense.
C18_Lower2cffTerminates ==
    last.op = "lower2cff" =>
        /\ fault # "diverges: lower2cff"
        /\ fault = "none" => BadCalls = {}

\* verify_calls: does a callee of that type take n arguments? A lambda takes
\* one per parameter, a Select what its two sides take; the type of any other
\* callee is not modelled
RECURSIVE Fits(_, _)
Fits(d, n) ==
    IF IsLam(d) THEN Len(params[d[2]]) = n
    ELSE IF IsSel(d) THEN Fits(sels[d[3]][2], n) /\ Fits(sels[d[3]][3], n)
    ELSE TRUE
\* the assertion of verify_calls on one lambda
ArityOk(L) == ops[L] # <<>> => Fits(ops[L][1], Len(ops[L]) - 1)

\* C21: if every lambda of the original scope passes as many arguments as its
\* callee has parameters, then after mangle (drop, lift or clone) every copied
\* lambda passes as many arguments as its new callee has parameters, also in a
\* self-call rewritten to the new entry.
C21_MangleKeepsArity ==
    (Mangled /\ \A L \in Members : ArityOk(L)) =>
        \A L \in Members : CopyOf(L) # "" => ArityOk(CopyOf(L))

\* ---- branch folding
\* the lambdas of the scope whose callee is a Select with a condition that
\* substitution turns into a boolean literal
FoldedBranches ==
    {L \in Members : /\ ops[L] # <<>>
                     /\ IsSel(ops[L][1])
                     /\ IsBoolLit(Substituted(sels[ops[L][1][3]][1]))}
\* the side of L's Select that the literal takes, and the other one
TakenSide(L) ==
    LET s == sels[ops[L][1][3]]
    IN IF Substituted(s[1])[3] = 1 THEN s[2] ELSE s[3]
UntakenSide(L) ==
    LET s == sels[ops[L][1][3]]
    IN IF Substituted(s[1])[3] = 1 THEN s[3] ELSE s[2]
\* the callees mangle_body may give for the taken side: its rewritten def, or
\* the new entry when the taken side is the old entry
TakenCallees(L) ==
    {Substituted(TakenSide(L))}
        \cup (IF TakenSide(L) = Lam(mangled.oentry) THEN {Lam(mangled.nentry)} ELSE {})
\* the def d is, or is a Select over, the lambda M
RECURSIVE Mentions(_, _)
Mentions(d, M) ==
    \/ d = Lam(M)
    \/ IsSel(d) /\ \E k \in 1..3 : Mentions(sels[d[3]][k], M)
\* M is an operand in the scope, and only as the untaken side of folded branches
UntakenOnly(M) ==
    /\ \E L \in Members : \E k \in 1..Len(ops[L]) : Mentions(ops[L][k], M)
    /\ \A L \in Members : \A k \in 1..Len(ops[L]) :
          Mentions(ops[L][k], M) =>
              /\ k = 1
              /\ L \in FoldedBranches
              /\ Mentions(UntakenSide(L), M)
              /\ ~Mentions(TakenSide(L), M)
\* the state a Mangler leaves: every copy of a folded branch calls the taken
\* side, the Select of the rewritten operands is none the run interned, and a
\* lambda met only on untaken sides has no copy
FoldedState(before) ==
    /\ \A L \in FoldedBranches :
          /\ CopyOf(L) # "" =>
                /\ ops[CopyOf(L)] # <<>>
                /\ ops[CopyOf(L)][1] \in TakenCallees(L)
          /\ \A k \in (before + 1)..Len(sels) :
                sels[k] # <<Substituted(sels[ops[L][1][3]][1]),
                            Substituted(sels[ops[L][1][3]][2]),
                            Substituted(sels[ops[L][1][3]][3])>>
    /\ \A M \in Members \ {mangled.oentry} : UntakenOnly(M) => CopyOf(M) = ""

\* C22: when the callee of a lambda of the scope is select(cond, t, f) and the
\* rewritten cond is a boolean literal, the copy's callee is the rewritten
\* taken side and no Select is created for it; a lambda of the scope that is
\* referenced only through untaken sides gets no copy; the mangle leaves the
\* operands of every lambda that existed before it unchanged.
C22_BranchFolding ==
    [][(mangled.nentry = "" /\ mangled'.nentry # "") =>
          /\ FoldedState(Len(sels))'
          /\ \A L \in created : ops'[L] = ops[L]]_vars

\* ---- the phases of lower2cff
\* the positions of the events of a kind in the log of the run
EventsOf(ev) == {k \in 1..Len(lowering.log) : lowering.log[k].ev = ev}
\* the sweeps of a phase, and those of them that found a bad call
SweepsIn(local) == {k \in EventsOf("sweep") : lowering.log[k].local = local}
BadSweeps(local) == {k \in SweepsIn(local) : lowering.log[k].bad}
\* lower2cff has returned
Returned == last.op = "lower2cff" /\ fault = "none"

\* C23: lower2cff starts in the local phase and stays in it until a complete
\* sweep over all scopes finds no bad call; only then it switches to the global
\* phase, once and for good; it stops only after a global sweep that finds no
\* bad call; World::cleanup and then the verifier run exactly once, after the
\* last sweep.
C23_PhaseOrdering ==
    /\ \A s \in EventsOf("switch") :
          /\ EventsOf("switch") = {s}
          /\ s > 1
          /\ SweepsIn(TRUE) = 1..(s - 1)
          /\ BadSweeps(TRUE) = 1..(s - 2)
          /\ \A k \in SweepsIn(FALSE) : k > s
    /\ EventsOf("switch") = {} => SweepsIn(FALSE) = {} /\ BadSweeps(TRUE) = SweepsIn(TRUE)
    /\ Returned =>
          LET n == Len(lowering.log)
          IN /\ Cardinality(EventsOf("switch")) = 1
             /\ EventsOf("cleanup") = {n - 1}
             /\ EventsOf("verify") = {n}
             /\ SweepsIn(FALSE) # {}
             /\ \A s \in EventsOf("switch") :
                   /\ SweepsIn(FALSE) = (s + 1)..(n - 2)
                   /\ BadSweeps(FALSE) = (s + 1)..(n - 3)
    /\ ~Returned => EventsOf("cleanup") = {} /\ EventsOf("verify") = {}
\* the pass returned after a local sweep and a global sweep that each found a
\* bad call
C23_Witness ==
    /\ Returned
    /\ BadSweeps(TRUE) # {}
    /\ BadSweeps(FALSE) # {}

\* ---- the specialization cache of lower2cff
\* the key the spec gives a call of `to` with the arguments args: the callee,
\* then each argument at a function parameter and nothing at the others
KeyOf(to, args) ==
    <<Lam(to)>> \o [i \in 1..Len(args) |->
                      IF Order(params[to][i]) > 0 THEN args[i] ELSE Null]
\* the arguments at the parameters of `to` that are no functions, in order
FirstOrderArgs(to, args) ==
    LET idx == SelectSeq([i \in 1..Len(args) |-> i], LAMBDA i : Order(params[to][i]) = 0)
    IN [k \in 1..Len(idx) |-> args[idx[k]]]
\* the positions in the logs of the drops made and of the calls rewritten
Drops == 1..Len(lowering.drops)
Calls == 1..Len(lowering.calls)

\* C24: the key of a bad call is [callee, a_1..a_n] with a_i the i-th argument
\* if the callee's i-th parameter is higher-order and empty otherwise; drop is
\* invoked at most once per key over the whole run; two bad calls with equal
\* keys are rewritten to the same specialized lambda; a rewritten call passes
\* exactly the arguments at the first-order positions, in their order.
C24_SpecializationCache ==
    /\ \A i \in Drops : \A j \in Drops :
          lowering.drops[i].key = lowering.drops[j].key => i = j
    /\ \A c \in Calls :
          LET call == lowering.calls[c]
              to == call.key[1][2]
          IN /\ Len(call.args) = Len(params[to])
             /\ call.key = KeyOf(to, call.args)
             /\ call.nargs = FirstOrderArgs(to, call.args)
             /\ \E i \in Drops : /\ lowering.drops[i].key = call.key
                                 /\ lowering.drops[i].target = call.target
    /\ \A c \in Calls : \A d \in Calls :
          lowering.calls[c].key = lowering.calls[d].key =>
              lowering.calls[c].target = lowering.calls[d].target
\* two calls had the same key, one drop served both, and a first-order
\* argument stayed at a rewritten call
C24_Witness ==
    /\ Returned
    /\ \E c \in Calls : \E d \in Calls :
          /\ c # d
          /\ lowering.calls[c].key = lowering.calls[d].key
          /\ lowering.calls[c].nargs # <<>>

\* ---- the work queue of the PassMgr
\* the nominals in the queue
Queued == {L \in LambdaIds : queue[L] > 0}

\* C25: the nominal the PassMgr takes next, the top of the priority queue, has
\* the smallest type order of those enqueued: none of order o is taken while
\* one of a lower order is still queued.
C25_BasicBlocksFirst ==
    last.op = "top" => \A M \in Queued : TypeOrder(Graph, last.lam) <= TypeOrder(Graph, M)
====
